---- MODULE Spec2Model ----
(***************************************************************************)
(* Model of rbot's resource manager (src/rbot/context.py): the             *)
(* InstanceManager of each machine class and the Context that routes       *)
(* request() scopes to them.  A machine is an opaque scoped resource: its  *)
(* factory (from_context) is entered by InstanceManager.init and its       *)
(* cleanup runs when InstanceManager.teardown closes the ExitStack.  Both  *)
(* may raise; which ones do is an input of every operation.  Next to the   *)
(* Context's request scopes the module covers an InstanceManager that is   *)
(* driven directly, register_machine and reconfigure scopes.               *)
(*                                                                         *)
(* The channel side (src/rbot/channel, src/rbot/machine/shell/linux) has   *)
(* its own specifications over the same variables: the read of the three   *)
(* ChannelIO variants (SpecIO), wait_for_shell over a pty (SpecHs), exec   *)
(* and exec0 (SpecEx), and the ownership of a ChannelIO by Channel         *)
(* objects with borrow, take and RunCommandProxy (SpecOwn), and the end of *)
(* PosixChannel.interactive (SpecInt).  The Channel class itself is not    *)
(* part of the sources at hand; what the model needs of it (expect,        *)
(* borrow, take) follows the specification document.  The testcase         *)
(* registry and run_test with the @testcase wrapper have SpecRun.          *)
(***************************************************************************)
EXTENDS Integers, Sequences, FiniteSets, TLC

\* ---------------------------------------------------------------- bounds
MaxScopes == 2      \* request scopes open at the same time
MaxInits == 2       \* factory invocations per machine class
MaxOpen == 2        \* nesting depth of `with ctx:`
MaxReconf == 1      \* reconfigure scopes open at the same time
MaxRoles == 2       \* length of the role list of one register_machine call
MaxRx == 2          \* bytes waiting in a transport
MaxRead == 2        \* the largest n of a read(n)
MaxAttempts == 3    \* echo lines wait_for_shell sends in a run
MaxChans == 3       \* Channel objects over one ChannelIO
MaxNest == 2        \* reconfigure scopes nested in one another

\* ------------------------------------------------------------- vocabulary
Classes == {"A", "B"}           \* machine classes
Roles == {"R1", "R2"}           \* roles
Types == Roles \cup Classes     \* what request() can be asked for
NoInst == 0                     \* _instance is None
NoExc == "none"                 \* no exception
ContextError == "ContextError"  \* rbot.error.ContextError
MachineNotFoundError == "MachineNotFoundError"
CleanupError == "CleanupError"  \* raised by a machine's cleanup code
FactoryError == "FactoryError"  \* raised while entering the factory's context
BodyError == "BodyError"        \* an ordinary exception raised by client code
Skipped == "Skipped"            \* pytest.skip()'s exception
KeyError == "KeyError"          \* "a machine is already registered for role"
UnboundLocalError == "UnboundLocalError"   \* a local read before assignment
BodyExcs == {BodyError, Skipped}
OptBool == {{}, {TRUE}, {FALSE}}   \* Optional[bool]: {} is None

VARIABLES
    roles,              \* Context._roles: role -> machine class
    weak_roles,         \* Context._weak_roles
    closing,            \* classes whose teardown is running the cleanup code
    instances,          \* Context._instances: class -> InstanceManager fields
    keep_alive,         \* Context._keep_alive
    reset_on_error_default, \* Context._reset_on_error_default
    open_contexts,      \* Context._open_contexts
    teardown_order,     \* Context._teardown_order
    inits,              \* class -> number of factory invocations so far
    scopes,             \* open Context.request scopes, in order of opening
    reconfs,            \* open Context.reconfigure scopes, in order of opening
    last,               \* what the most recent operation did (observation)
    tr,                 \* the transport under a ChannelIO and its far end
    buf,                \* Channel: the receive buffer
    pc,                 \* the position and locals of the running routine
    chans,              \* the Channel objects and what their _c refers to
    bscopes,            \* the open borrow() scopes, innermost last
    obs                 \* what the channel side did most recently

\* The channel side
chvars == <<tr, buf, pc, chans, bscopes, obs>>

vars == <<roles, weak_roles, closing, instances, keep_alive,
          reset_on_error_default, open_contexts, teardown_order, inits,
          scopes, reconfs, last, chvars>>

\* ------------------------------------------------------- sequence helpers
RECURSIVE Reverse(_)
Reverse(s) == IF s = <<>> THEN <<>> ELSE Append(Reverse(Tail(s)), Head(s))

Remove(s, i) == [k \in 1..(Len(s) - 1) |-> IF k < i THEN s[k] ELSE s[k + 1]]

InSeq(x, s) == \E k \in 1..Len(s) : s[k] = x

\* ------------------------------------------------------- InstanceManager
\* InstanceManager.__init__
NewManager == [instance |-> NoInst, cx |-> FALSE, available |-> FALSE,
               current_users |-> 0]

\* InstanceManager.is_alive
is_alive(m) == m.instance # NoInst

\* InstanceManager.has_users
has_users(m) == m.current_users # 0

\* An init that replaces a live instance
IMInit_Reinitializes(m, id, fails) ==
    IF fails
    THEN [m |-> [m EXCEPT !.cx = FALSE, !.available = TRUE], exc |-> FactoryError]
    ELSE [m |-> [m EXCEPT !.cx = TRUE, !.available = TRUE, !.instance = id],
          exc |-> NoExc]

\* InstanceManager.init(context=...): id is the identity of the object the
\* factory's context yields, fails says that entering it raises.
IMInit(m, id, fails) ==
    IF m.instance # NoInst
    THEN [m |-> m, exc |-> ContextError]
    ELSE IF fails
    THEN [m |-> [m EXCEPT !.cx = FALSE, !.available = TRUE], exc |-> FactoryError]
    ELSE [m |-> [m EXCEPT !.cx = TRUE, !.available = TRUE, !.instance = id],
          exc |-> NoExc]

\* A teardown that also forgets the users of the instance
IMTeardown_ResetsUsers(m, fails) ==
    IF m.instance = NoInst
    THEN [m |-> m, exc |-> ContextError]
    ELSE IF m.cx /\ fails
    THEN [m |-> [m EXCEPT !.cx = FALSE], exc |-> CleanupError]
    ELSE [m |-> [m EXCEPT !.cx = FALSE, !.instance = NoInst,
                          !.current_users = 0],
          exc |-> NoExc]

\* InstanceManager.teardown: fails says that the machine's cleanup raises.
\* ExitStack.close() pops its callbacks before it re-raises, so a cleanup
\* runs at most once; _instance is cleared only after close() returned.
IMTeardown(m, fails) ==
    IF m.instance = NoInst
    THEN [m |-> m, exc |-> ContextError]
    ELSE IF m.cx /\ fails
    THEN [m |-> [m EXCEPT !.cx = FALSE], exc |-> CleanupError]
    ELSE [m |-> [m EXCEPT !.cx = FALSE, !.instance = NoInst], exc |-> NoExc]

\* A request that does not check the available flag
IMRequestEnter_NoAvailableCheck(m, exclusive) ==
    IF m.instance = NoInst
    THEN [m |-> m, exc |-> ContextError]
    ELSE [m |-> [m EXCEPT !.current_users = @ + 1,
                          !.available = IF exclusive THEN FALSE ELSE @],
          exc |-> NoExc]

\* InstanceManager.request up to the yield
IMRequestEnter(m, exclusive) ==
    IF m.instance = NoInst
    THEN [m |-> m, exc |-> ContextError]
    ELSE IF ~m.available
    THEN [m |-> m, exc |-> ContextError]
    ELSE [m |-> [m EXCEPT !.current_users = @ + 1,
                          !.available = IF exclusive THEN FALSE ELSE @],
          exc |-> NoExc]

\* An exit rule that does not look whether the instance is alive
IMExitTearsDown_NoAliveCheck(m, exclusive, ka) ==
    exclusive \/ (~ka /\ m.current_users = 0)

\* An exit that tears down for exclusive requests only
IMExitTearsDown_ExclusiveOnly(m, exclusive, ka) ==
    exclusive /\ is_alive(m)

\* The condition of InstanceManager.request's finally block, after the
\* decrement, under which it tears the instance down.
IMExitTearsDown(m, exclusive, ka) ==
    (exclusive \/ (~ka /\ m.current_users = 0)) /\ is_alive(m)

\* InstanceManager.request after the yield (the finally block); exc is the
\* exception in flight, fails says that the machine's cleanup raises.
IMRequestExit(m, exclusive, ka, exc, fails) ==
    LET m1 == [m EXCEPT !.current_users = @ - 1]
    IN IF IMExitTearsDown(m1, exclusive, ka)
       THEN LET t == IMTeardown(m1, fails)
            IN [m |-> t.m,
                exc |-> IF t.exc # NoExc THEN t.exc ELSE exc,
                torn |-> IF t.exc = NoExc THEN 1 ELSE 0,
                tried |-> 1]
       ELSE [m |-> m1, exc |-> exc, torn |-> 0, tried |-> 0]

\* ---------------------------------------------------------------- Context
\* The classes with an instance alive
Alive == {c \in DOMAIN instances : is_alive(instances[c])}

\* What client code and the log see of an operation: the exception it raised,
\* the instance it yielded or released (m), the factory calls it made, the
\* classes it tore down (in order) and warned about.  For a request: its
\* reset argument; for the exit of a request scope: the exception raised in
\* the scope (exc) and the scope's flags; for the exit of the Context: its
\* keep_alive and the classes alive before it; for teardown_if_alive: the
\* value it returned (ret).
Obs(op, cls) ==
    [op |-> op, cls |-> cls, raised |-> NoExc, exc |-> NoExc,
     reset |-> FALSE, exclusive |-> FALSE, roe |-> FALSE, ka |-> FALSE,
     m |-> NoInst, factory |-> 0, torn |-> <<>>, warned |-> {},
     wrong |-> {}, alive |-> {}, ret |-> FALSE]

\* No machine has opened a channel
NoChannel ==
    /\ tr = [kind |-> "-", eof |-> FALSE, open |-> FALSE, rx |-> <<>>,
             tx |-> <<>>]
    /\ buf = <<>>
    /\ pc = [at |-> "-"]
    /\ chans = <<>>
    /\ bscopes = <<>>
    /\ obs = [op |-> "-"]

\* The registrations of a configuration's register_machines(ctx).
Registered == [r \in Roles |-> IF r = "R1" THEN "A" ELSE "B"]

\* Context.__init__ followed by the configuration's register_machines
Init ==
    /\ roles = Registered
    /\ weak_roles = {}
    /\ closing = {}
    /\ instances = [c \in {} |-> NewManager]
    /\ keep_alive \in BOOLEAN
    /\ reset_on_error_default \in BOOLEAN
    /\ open_contexts = 0
    /\ teardown_order = <<>>
    /\ inits = [c \in Classes |-> 0]
    /\ scopes = <<>>
    /\ reconfs = <<>>
    /\ last = Obs("init", "-")
    /\ NoChannel

\* A lookup that takes every type that is no role for a machine class
GetClass_AnyClass(type) ==
    IF type \in DOMAIN roles THEN roles[type] ELSE type

\* Context._get_class_and_instance: the class a type resolves to, or "-"
\* when it raises MachineNotFoundError.
GetClass(type) ==
    IF type \in DOMAIN roles THEN roles[type]
    ELSE IF type \in DOMAIN instances THEN type
    ELSE "-"

\* self._instances[machine_class] of a defaultdict(InstanceManager)
Manager(cls) == IF cls \in DOMAIN instances THEN instances[cls] ELSE NewManager

SetManager(cls, m) ==
    [c \in DOMAIN instances \cup {cls} |-> IF c = cls THEN m ELSE instances[c]]

\* A request that ignores its reset argument
CtxRequestEnter_IgnoresReset(m0, reset, exclusive, id, cleanupFails, factoryFails) ==
    LET doInit == ~is_alive(m0)
        i == IF doInit THEN IMInit(m0, id, factoryFails)
             ELSE [m |-> m0, exc |-> NoExc]
        r == IF i.exc = NoExc THEN IMRequestEnter(i.m, exclusive)
             ELSE [m |-> i.m, exc |-> i.exc]
    IN [m |-> r.m, exc |-> r.exc, tried |-> 0, torn |-> 0,
        factory |-> IF doInit THEN 1 ELSE 0,
        yielded |-> IF r.exc = NoExc THEN r.m.instance ELSE NoInst]

\* A request that relies on the instance being initialized already
CtxRequestEnter_NoLazyInit(m0, reset, exclusive, id, cleanupFails, factoryFails) ==
    LET doReset == is_alive(m0) /\ reset
        t == IF doReset THEN IMTeardown(m0, cleanupFails)
             ELSE [m |-> m0, exc |-> NoExc]
        r == IF t.exc = NoExc THEN IMRequestEnter(t.m, exclusive)
             ELSE [m |-> t.m, exc |-> t.exc]
    IN [m |-> r.m, exc |-> r.exc,
        tried |-> IF doReset THEN 1 ELSE 0,
        torn |-> IF doReset /\ t.exc = NoExc THEN 1 ELSE 0,
        factory |-> 0,
        yielded |-> IF r.exc = NoExc THEN r.m.instance ELSE NoInst]

\* Context.request from the role lookup up to the yield, on the manager m0
\* of the machine class: reset and lazy initialisation, then
\* InstanceManager.request.  id is the identity of a new instance.
CtxRequestEnter(m0, reset, exclusive, id, cleanupFails, factoryFails) ==
    LET doReset == is_alive(m0) /\ reset
        t == IF doReset THEN IMTeardown(m0, cleanupFails)
             ELSE [m |-> m0, exc |-> NoExc]
        doInit == t.exc = NoExc /\ ~is_alive(t.m)
        i == IF doInit THEN IMInit(t.m, id, factoryFails)
             ELSE [m |-> t.m, exc |-> t.exc]
        r == IF i.exc = NoExc THEN IMRequestEnter(i.m, exclusive)
             ELSE [m |-> i.m, exc |-> i.exc]
    IN [m |-> r.m, exc |-> r.exc,
        tried |-> IF doReset THEN 1 ELSE 0,
        torn |-> IF doReset /\ t.exc = NoExc THEN 1 ELSE 0,
        factory |-> IF doInit THEN 1 ELSE 0,
        yielded |-> IF r.exc = NoExc THEN r.m.instance ELSE NoInst]

\* An always-appending record
Record_AppendsAlways(order, cls) == Append(order, cls)

\* `if machine_class not in self._teardown_order: append`
Record(order, cls) == IF InSeq(cls, order) THEN order ELSE Append(order, cls)

\* A request that resolves the role before it checks that a keep_alive
\* Context was entered
Request_ResolvesRoleFirst(type, reset, exclusive, reset_on_error, cleanupFails, factoryFails) ==
    LET roe == IF reset_on_error = {} THEN reset_on_error_default
               ELSE TRUE \in reset_on_error
        cls == GetClass(type)
        o == [Obs("request", cls) EXCEPT !.reset = reset]
    IN
    /\ IF cls = "-"
       THEN /\ ~factoryFails
            /\ last' = [o EXCEPT !.raised = MachineNotFoundError]
            /\ UNCHANGED <<instances, teardown_order, inits, scopes>>
       ELSE IF keep_alive /\ open_contexts = 0
       THEN /\ ~factoryFails
            /\ last' = [o EXCEPT !.cls = "-", !.raised = ContextError]
            /\ UNCHANGED <<instances, teardown_order, inits, scopes>>
       ELSE LET r == CtxRequestEnter(Manager(cls), reset, exclusive,
                                     inits[cls] + 1, cleanupFails, factoryFails)
            IN /\ inits[cls] + r.factory <= MaxInits
               /\ r.exc = NoExc => Len(scopes) < MaxScopes
               /\ factoryFails => r.factory = 1
               /\ instances' = SetManager(cls, r.m)
               /\ inits' = [inits EXCEPT ![cls] = @ + r.factory]
               /\ teardown_order' = IF r.exc = NoExc
                                    THEN Record(teardown_order, cls)
                                    ELSE teardown_order
               /\ scopes' = IF r.exc = NoExc
                            THEN Append(scopes,
                                   [cls |-> cls, exclusive |-> exclusive,
                                    ka |-> keep_alive, roe |-> roe,
                                    m |-> r.yielded])
                            ELSE scopes
               /\ last' = [o EXCEPT !.raised = r.exc, !.m = r.yielded,
                             !.factory = r.factory,
                             !.torn = IF r.torn = 1 THEN <<cls>> ELSE <<>>]
    /\ UNCHANGED <<chvars, roles, weak_roles, closing, keep_alive,
                   reset_on_error_default, open_contexts, reconfs>>

\* Context.request, entering the scope
Request(type, reset, exclusive, reset_on_error, cleanupFails, factoryFails) ==
    LET roe == IF reset_on_error = {} THEN reset_on_error_default
               ELSE TRUE \in reset_on_error
        cls == GetClass(type)
        o == [Obs("request", cls) EXCEPT !.reset = reset]
    IN
    /\ IF keep_alive /\ open_contexts = 0
       THEN /\ ~factoryFails
            /\ last' = [o EXCEPT !.cls = "-", !.raised = ContextError]
            /\ UNCHANGED <<instances, teardown_order, inits, scopes>>
       ELSE IF cls = "-"
       THEN /\ ~factoryFails
            /\ last' = [o EXCEPT !.raised = MachineNotFoundError]
            /\ UNCHANGED <<instances, teardown_order, inits, scopes>>
       ELSE LET r == CtxRequestEnter(Manager(cls), reset, exclusive,
                                     inits[cls] + 1, cleanupFails, factoryFails)
            IN /\ inits[cls] + r.factory <= MaxInits
               /\ r.exc = NoExc => Len(scopes) < MaxScopes
               /\ factoryFails => r.factory = 1
               /\ instances' = SetManager(cls, r.m)
               /\ inits' = [inits EXCEPT ![cls] = @ + r.factory]
               /\ teardown_order' = IF r.exc = NoExc
                                    THEN Record(teardown_order, cls)
                                    ELSE teardown_order
               /\ scopes' = IF r.exc = NoExc
                            THEN Append(scopes,
                                   [cls |-> cls, exclusive |-> exclusive,
                                    ka |-> keep_alive, roe |-> roe,
                                    m |-> r.yielded])
                            ELSE scopes
               /\ last' = [o EXCEPT !.raised = r.exc, !.m = r.yielded,
                             !.factory = r.factory,
                             !.torn = IF r.torn = 1 THEN <<cls>> ELSE <<>>]
    /\ UNCHANGED <<chvars, roles, weak_roles, closing, keep_alive,
                   reset_on_error_default, open_contexts,
                   reconfs>>

\* A reset_on_error that spares an instance other scopes still use
CtxRequestExit_SparesSharedInstance(m, s, exc, cleanupFails) ==
    LET force == exc # NoExc /\ s.roe /\ exc # Skipped /\ is_alive(m)
                 /\ m.current_users = 1
        t == IF force THEN IMTeardown(m, cleanupFails)
             ELSE [m |-> m, exc |-> NoExc]
        inflight == IF t.exc # NoExc THEN t.exc ELSE exc
        f == IMRequestExit(t.m, s.exclusive, s.ka, inflight, cleanupFails)
    IN [m |-> f.m, exc |-> f.exc,
        tried |-> (IF force THEN 1 ELSE 0) + f.tried,
        torn |-> (IF force /\ t.exc = NoExc THEN 1 ELSE 0) + f.torn,
        warned |-> exc = Skipped /\ s.roe]

\* Context.request after the yield: the except clause (reset_on_error) on
\* the manager m, then InstanceManager.request's finally block.  exc is the
\* exception client code raised inside the scope (NoExc: normal exit).
CtxRequestExit(m, s, exc, cleanupFails) ==
    LET force == exc # NoExc /\ s.roe /\ exc # Skipped /\ is_alive(m)
        t == IF force THEN IMTeardown(m, cleanupFails)
             ELSE [m |-> m, exc |-> NoExc]
        inflight == IF t.exc # NoExc THEN t.exc ELSE exc
        f == IMRequestExit(t.m, s.exclusive, s.ka, inflight, cleanupFails)
    IN [m |-> f.m, exc |-> f.exc,
        tried |-> (IF force THEN 1 ELSE 0) + f.tried,
        torn |-> (IF force /\ t.exc = NoExc THEN 1 ELSE 0) + f.torn,
        warned |-> exc = Skipped /\ s.roe]

Times(n, x) == [k \in 1..n |-> x]

\* An exit that applies the keep_alive in force when the scope is left
ExitScope_UsesCurrentKeepAlive(i, exc, cleanupFails) ==
    LET s == [scopes[i] EXCEPT !.ka = keep_alive]
        r == CtxRequestExit(instances[s.cls], s, exc, cleanupFails)
    IN /\ instances' = SetManager(s.cls, r.m)
       /\ scopes' = Remove(scopes, i)
       /\ last' = [Obs("exit", s.cls) EXCEPT !.exc = exc, !.raised = r.exc,
                     !.exclusive = s.exclusive, !.roe = s.roe,
                     !.ka = scopes[i].ka,
                     !.m = s.m, !.torn = Times(r.torn, s.cls),
                     !.warned = IF r.warned THEN {s.cls} ELSE {}]
       /\ UNCHANGED <<chvars, roles, weak_roles, closing, keep_alive,
                      reset_on_error_default,
                      open_contexts, teardown_order, inits, reconfs>>

\* Leaving the i-th open request scope, normally or with an exception
ExitScope(i, exc, cleanupFails) ==
    LET s == scopes[i]
        r == CtxRequestExit(instances[s.cls], s, exc, cleanupFails)
    IN /\ instances' = SetManager(s.cls, r.m)
       /\ scopes' = Remove(scopes, i)
       /\ last' = [Obs("exit", s.cls) EXCEPT !.exc = exc, !.raised = r.exc,
                     !.exclusive = s.exclusive, !.roe = s.roe, !.ka = s.ka,
                     !.m = s.m, !.torn = Times(r.torn, s.cls),
                     !.warned = IF r.warned THEN {s.cls} ELSE {}]
       /\ UNCHANGED <<chvars, roles, weak_roles, closing, keep_alive,
                      reset_on_error_default,
                      open_contexts, teardown_order, inits, reconfs>>

\* A teardown_if_alive that spares an instance that has users
TeardownIfAlive_SparesUsers(type, cleanupFails) ==
    LET cls == GetClass(type)
    IN IF cls = "-"
       THEN /\ last' = [Obs("teardown_if_alive", cls)
                           EXCEPT !.raised = MachineNotFoundError]
            /\ UNCHANGED <<chvars, roles, weak_roles, closing, instances, keep_alive,
                           reset_on_error_default, open_contexts,
                           teardown_order, inits, scopes, reconfs>>
       ELSE LET m == Manager(cls)
                do == is_alive(m) /\ ~has_users(m)
                t == IF do THEN IMTeardown(m, cleanupFails)
                     ELSE [m |-> m, exc |-> NoExc]
            IN /\ instances' = SetManager(cls, t.m)
               /\ last' = [Obs("teardown_if_alive", cls) EXCEPT
                             !.raised = t.exc,
                             !.ret = do /\ t.exc = NoExc,
                             !.torn = IF do /\ t.exc = NoExc
                                      THEN <<cls>> ELSE <<>>]
               /\ UNCHANGED <<chvars, roles, weak_roles, closing, keep_alive,
                              reset_on_error_default, open_contexts,
                              teardown_order, inits, scopes, reconfs>>

\* Context.teardown_if_alive
TeardownIfAlive(type, cleanupFails) ==
    LET cls == GetClass(type)
    IN IF cls = "-"
       THEN /\ last' = [Obs("teardown_if_alive", cls)
                           EXCEPT !.raised = MachineNotFoundError]
            /\ UNCHANGED <<chvars, roles, weak_roles, closing, instances, keep_alive,
                           reset_on_error_default, open_contexts,
                           teardown_order, inits, scopes, reconfs>>
       ELSE LET m == Manager(cls)
                t == IF is_alive(m) THEN IMTeardown(m, cleanupFails)
                     ELSE [m |-> m, exc |-> NoExc]
            IN /\ instances' = SetManager(cls, t.m)
               /\ last' = [Obs("teardown_if_alive", cls) EXCEPT
                             !.raised = t.exc,
                             !.ret = is_alive(m) /\ t.exc = NoExc,
                             !.torn = IF is_alive(m) /\ t.exc = NoExc
                                      THEN <<cls>> ELSE <<>>]
               /\ UNCHANGED <<chvars, roles, weak_roles, closing, keep_alive,
                              reset_on_error_default,
                              open_contexts, teardown_order, inits, scopes,
                              reconfs>>

\* Context.is_active
is_active == open_contexts # 0

\* Context.__enter__
Enter ==
    /\ open_contexts < MaxOpen
    /\ open_contexts' = open_contexts + 1
    /\ last' = Obs("enter", "-")
    /\ UNCHANGED <<chvars, roles, weak_roles, closing, instances, keep_alive,
                   reset_on_error_default,
                   teardown_order, inits, scopes, reconfs>>

\* The loop of Context.__exit__ over the classes of order (already
\* reversed), starting from the managers insts: with keep_alive every alive
\* instance is torn down, else it is warned about.  A teardown that raises
\* ends the loop.  cleanupFails is the set of classes whose cleanup raises.
RECURSIVE ExitLoop(_, _, _, _)
ExitLoop(order, insts, ka, cleanupFails) ==
    IF order = <<>>
    THEN [insts |-> insts, exc |-> NoExc, torn |-> <<>>, tried |-> <<>>,
          warned |-> {}]
    ELSE LET cls == Head(order)
             inst == insts[cls]
         IN IF ~is_alive(inst)
            THEN ExitLoop(Tail(order), insts, ka, cleanupFails)
            ELSE IF ~ka
            THEN LET r == ExitLoop(Tail(order), insts, ka, cleanupFails)
                 IN [r EXCEPT !.warned = @ \cup {cls}]
            ELSE LET t == IMTeardown(inst, cls \in cleanupFails)
                     insts1 == [insts EXCEPT ![cls] = t.m]
                 IN IF t.exc # NoExc
                    THEN [insts |-> insts1, exc |-> t.exc, torn |-> <<>>,
                          tried |-> <<cls>>, warned |-> {}]
                    ELSE LET r == ExitLoop(Tail(order), insts1, ka,
                                           cleanupFails)
                         IN [r EXCEPT !.torn = <<cls>> \o @,
                                      !.tried = <<cls>> \o @]

Exit_TearsDownOnEveryExit(cleanupFails) ==
    /\ open_contexts >= 1
    /\ LET outermost == open_contexts = 1
           r == ExitLoop(Reverse(teardown_order), instances, keep_alive,
                         cleanupFails)
       IN /\ instances' = r.insts
          /\ open_contexts' = open_contexts - 1
          /\ last' = [Obs("exit_context", "-") EXCEPT
                        !.raised = r.exc, !.torn = r.torn,
                        !.warned = r.warned, !.ka = keep_alive,
                        !.alive = Alive,
                        !.wrong = IF outermost
                                  THEN {c \in DOMAIN r.insts :
                                          is_alive(r.insts[c])}
                                  ELSE {}]
    /\ UNCHANGED <<chvars, roles, weak_roles, closing, keep_alive,
                   reset_on_error_default, teardown_order,
                   inits, scopes, reconfs>>

\* Context.__exit__
Exit(cleanupFails) ==
    /\ open_contexts >= 1
    /\ LET outermost == open_contexts = 1
           r == IF outermost
                THEN ExitLoop(Reverse(teardown_order), instances, keep_alive,
                              cleanupFails)
                ELSE [insts |-> instances, exc |-> NoExc, torn |-> <<>>,
                      tried |-> <<>>, warned |-> {}]
       IN /\ instances' = r.insts
          /\ open_contexts' = open_contexts - 1
          /\ last' = [Obs("exit_context", "-") EXCEPT
                        !.raised = r.exc, !.torn = r.torn,
                        !.warned = r.warned, !.ka = keep_alive,
                        !.alive = Alive,
                        !.wrong = IF outermost
                                  THEN {c \in DOMAIN r.insts :
                                          is_alive(r.insts[c])}
                                  ELSE {}]
    /\ UNCHANGED <<chvars, roles, weak_roles, closing, keep_alive,
                   reset_on_error_default, teardown_order,
                   inits, scopes, reconfs>>

\* Context.reconfigure, entering the scope
Reconfigure(ka, roe) ==
    /\ Len(reconfs) < MaxReconf
    /\ reconfs' = Append(reconfs, [keep_alive_orig |-> keep_alive,
                                   reset_on_error_orig |-> reset_on_error_default,
                                   keep_alive |-> ka])
    /\ keep_alive' = IF ka = {} THEN keep_alive ELSE TRUE \in ka
    /\ reset_on_error_default' = IF roe = {} THEN reset_on_error_default
                                 ELSE TRUE \in roe
    /\ last' = Obs("reconfigure", "-")
    /\ UNCHANGED <<chvars, roles, weak_roles, closing, instances, open_contexts,
                   teardown_order,
                   inits, scopes>>

\* The loop of Context.reconfigure's finally block over the classes of
\* order (already reversed): instances that are alive and have no users
\* are torn down.  A teardown that raises ends the loop.
RECURSIVE ReconfLoop(_, _, _)
ReconfLoop(order, insts, cleanupFails) ==
    IF order = <<>>
    THEN [insts |-> insts, exc |-> NoExc, torn |-> <<>>, tried |-> <<>>]
    ELSE LET cls == Head(order)
             inst == insts[cls]
         IN IF ~(is_alive(inst) /\ ~has_users(inst))
            THEN ReconfLoop(Tail(order), insts, cleanupFails)
            ELSE LET t == IMTeardown(inst, cls \in cleanupFails)
                     insts1 == [insts EXCEPT ![cls] = t.m]
                 IN IF t.exc # NoExc
                    THEN [insts |-> insts1, exc |-> t.exc, torn |-> <<>>,
                          tried |-> <<cls>>]
                    ELSE LET r == ReconfLoop(Tail(order), insts1, cleanupFails)
                         IN [r EXCEPT !.torn = <<cls>> \o @,
                                      !.tried = <<cls>> \o @]

\* Leaving a reconfigure scope without tearing down what it kept alive
ExitReconfigure_NoTeardown(i, exc, cleanupFails) ==
    LET rc == reconfs[i]
    IN /\ keep_alive' = rc.keep_alive_orig
       /\ reset_on_error_default' = rc.reset_on_error_orig
       /\ reconfs' = Remove(reconfs, i)
       /\ last' = [Obs("exit_reconfigure", "-") EXCEPT
                     !.exc = exc, !.raised = exc]
       /\ UNCHANGED <<chvars, roles, weak_roles, closing, instances,
                      open_contexts, teardown_order, inits, scopes>>

\* Leaving the i-th open reconfigure scope, normally or with an exception
ExitReconfigure(i, exc, cleanupFails) ==
    LET rc == reconfs[i]
        r == IF rc.keep_alive_orig = FALSE /\ rc.keep_alive = {TRUE}
             THEN ReconfLoop(Reverse(teardown_order), instances, cleanupFails)
             ELSE [insts |-> instances, exc |-> NoExc, torn |-> <<>>,
                   tried |-> <<>>]
    IN /\ keep_alive' = rc.keep_alive_orig
       /\ reset_on_error_default' = rc.reset_on_error_orig
       /\ instances' = r.insts
       /\ reconfs' = Remove(reconfs, i)
       /\ last' = [Obs("exit_reconfigure", "-") EXCEPT
                     !.exc = exc, !.torn = r.torn,
                     !.raised = IF r.exc # NoExc THEN r.exc ELSE exc]
       /\ UNCHANGED <<chvars, roles, weak_roles, closing, open_contexts,
                      teardown_order, inits, scopes>>

\* The machines whose context is entered: those have cleanup code to run,
\* which can raise.
Entered == {c \in DOMAIN instances : instances[c].cx}

\* The operations client code can perform without reconfigure: requests
\* for the types in T with reset, exclusive and the factory's failure drawn
\* from the sets R, X and FF
Operations(T, R, X, FF) ==
    \/ Enter
    \/ \E F \in SUBSET Entered : Exit(F)
    \/ \E type \in T, reset \in R, exclusive \in X,
          reset_on_error \in OptBool, F \in SUBSET Entered, ff \in FF :
          Request(type, reset, exclusive, reset_on_error, GetClass(type) \in F, ff)
    \/ \E i \in 1..Len(scopes), exc \in {NoExc} \cup BodyExcs,
          F \in SUBSET Entered : ExitScope(i, exc, scopes[i].cls \in F)
    \/ \E type \in T, F \in SUBSET Entered :
          TeardownIfAlive(type, GetClass(type) \in F)

\* Reconfigure scopes
Reconfigurations ==
    \/ \E ka \in OptBool, roe \in OptBool : Reconfigure(ka, roe)
    \/ \E i \in 1..Len(reconfs), exc \in {NoExc, BodyError},
          F \in SUBSET Entered : ExitReconfigure(i, exc, F)

\* One role and its machine class, every kind of request
Next == Operations({"R1", "A"}, BOOLEAN, BOOLEAN, BOOLEAN)

Spec == Init /\ [][Next]_vars

\* Two roles with their machine classes, shared requests without reset
Next2 == Operations(Roles, {FALSE}, {FALSE}, {FALSE})

Spec2 == Init /\ [][Next2]_vars

\* Two roles with their machine classes, shared requests without reset that
\* are left normally, inside and outside of reconfigure scopes; cleanup
\* code can raise in the teardowns of a reconfigure scope's exit
NextRc ==
    \/ Enter
    \/ \E type \in Roles : Request(type, FALSE, FALSE, {}, FALSE, FALSE)
    \/ \E i \in 1..Len(scopes) : ExitScope(i, NoExc, FALSE)
    \/ Reconfigurations

SpecRc == Init /\ [][NextRc]_vars

\* One role, every kind of request with a factory that works, inside and
\* outside of reconfigure scopes that set keep_alive and are left normally
NextAll ==
    \/ Operations({"R1"}, BOOLEAN, BOOLEAN, {FALSE})
    \/ \E ka \in OptBool : Reconfigure(ka, {})
    \/ \E i \in 1..Len(reconfs), F \in SUBSET Entered :
          ExitReconfigure(i, NoExc, F)

\* A Context made without reset_on_error_by_default
InitAll == Init /\ reset_on_error_default = FALSE

SpecAll == InitAll /\ [][NextAll]_vars

\* Properly nested scopes.  A reconfigure scope remembers the with-statements
\* that were open when it was entered: the number of request scopes (depth)
\* and of `with ctx:` blocks (open).

\* Context.reconfigure, entering the scope, with the scope's place in the
\* nesting of with-statements
ReconfigureNested(ka, roe) ==
    /\ Len(reconfs) < MaxNest
    /\ reconfs' = Append(reconfs, [keep_alive_orig |-> keep_alive,
                                   reset_on_error_orig |-> reset_on_error_default,
                                   keep_alive |-> ka,
                                   depth |-> Len(scopes),
                                   open |-> open_contexts])
    /\ keep_alive' = IF ka = {} THEN keep_alive ELSE TRUE \in ka
    /\ reset_on_error_default' = IF roe = {} THEN reset_on_error_default
                                 ELSE TRUE \in roe
    /\ last' = Obs("reconfigure", "-")
    /\ UNCHANGED <<chvars, roles, weak_roles, closing, instances, open_contexts,
                   teardown_order,
                   inits, scopes>>

\* The with-statements that were open when the innermost open reconfigure
\* scope was entered
Base ==
    IF reconfs = <<>> THEN [depth |-> 0, open |-> 0]
    ELSE [depth |-> reconfs[Len(reconfs)].depth,
          open |-> reconfs[Len(reconfs)].open]

\* One role, every kind of request, teardown_if_alive and reconfigure
\* scopes that set keep_alive; no cleanup code and no factory raises.  Every with-statement is
\* left before the one around it: a request scope, a `with ctx:` block and a
\* reconfigure scope are left only when nothing opened inside them is open,
\* and within one reconfigure scope `with ctx:` blocks are around the
\* request scopes.
NextNest ==
    \/ Len(scopes) = Base.depth /\ Enter
    \/ Len(scopes) = Base.depth /\ open_contexts > Base.open /\ Exit({})
    \/ \E reset \in BOOLEAN, exclusive \in BOOLEAN,
          reset_on_error \in OptBool :
          Request("R1", reset, exclusive, reset_on_error, FALSE, FALSE)
    \/ /\ Len(scopes) > Base.depth
       /\ \E exc \in {NoExc, BodyError} :
             ExitScope(Len(scopes), exc, FALSE)
    \/ TeardownIfAlive("R1", FALSE)
    \/ \E ka \in OptBool : ReconfigureNested(ka, {})
    \/ /\ reconfs # <<>>
       /\ Len(scopes) = Base.depth /\ open_contexts = Base.open
       /\ ExitReconfigure(Len(reconfs), NoExc, {})

\* A Context made with keep_alive=False and without
\* reset_on_error_by_default
InitNest == InitAll /\ keep_alive = FALSE

SpecNest == InitNest /\ [][NextNest]_vars

\* A machine class whose factory requests another role and keeps that
\* request open for the life of its instance: the class of role R2 is
\* built on the machine of role R1
Dependent == "R2"
Dependency == "R1"

\* Context.request(Dependent) when the instance has to be made: init runs
\* the factory, whose nested self.request(Dependency) goes all its way to
\* the yield (and records its class) before the factory yields the
\* instance; then the outer request is entered and its class recorded.
\* When the nested request raises, the factory and with it init raise.
RequestNested(exclusive) ==
    LET cls == GetClass(Dependent)
        dcls == GetClass(Dependency)
        o == Obs("request_nested", cls)
        r1 == CtxRequestEnter(Manager(dcls), FALSE, FALSE, inits[dcls] + 1,
                              FALSE, FALSE)
        insts1 == [c \in DOMAIN instances \cup {dcls, cls} |->
                     IF c = dcls THEN r1.m ELSE Manager(c)]
        r2 == CtxRequestEnter(insts1[cls], FALSE, exclusive, inits[cls] + 1,
                              FALSE, r1.exc # NoExc)
    IN /\ ~(keep_alive /\ open_contexts = 0)
       /\ ~is_alive(Manager(cls))
       /\ inits[dcls] + r1.factory <= MaxInits
       /\ inits[cls] + 1 <= MaxInits
       /\ Len(scopes) + 2 <= MaxScopes
       /\ instances' = [insts1 EXCEPT ![cls] = r2.m]
       /\ inits' = [inits EXCEPT ![dcls] = @ + r1.factory, ![cls] = @ + 1]
       /\ teardown_order' =
             IF r1.exc # NoExc THEN teardown_order
             ELSE Record(Record(teardown_order, dcls), cls)
       /\ scopes' =
             IF r1.exc # NoExc THEN scopes
             ELSE scopes \o
                  <<[cls |-> dcls, exclusive |-> FALSE, ka |-> keep_alive,
                     roe |-> reset_on_error_default, m |-> r1.yielded],
                    [cls |-> cls, exclusive |-> exclusive, ka |-> keep_alive,
                     roe |-> reset_on_error_default, m |-> r2.yielded]>>
       /\ last' = [o EXCEPT !.raised = IF r1.exc # NoExc THEN r1.exc
                                       ELSE r2.exc,
                            !.m = r2.yielded, !.exclusive = exclusive,
                            !.factory = 1]
       /\ UNCHANGED <<chvars, roles, weak_roles, closing, keep_alive,
                      reset_on_error_default, open_contexts, reconfs>>

\* Two roles, the machine of the second built on the machine of the first:
\* every request for the second that has to make the instance goes through
\* the factory's nested request
NextDep ==
    \/ Enter
    \/ Exit({})
    \/ \E reset \in BOOLEAN, exclusive \in BOOLEAN, ff \in BOOLEAN :
          Request(Dependency, reset, exclusive, {}, FALSE, ff)
    \/ /\ is_alive(Manager(GetClass(Dependent)))
       /\ Request(Dependent, FALSE, FALSE, {}, FALSE, FALSE)
    \/ \E exclusive \in BOOLEAN : RequestNested(exclusive)
    \/ \E i \in 1..Len(scopes), exc \in {NoExc, BodyError} :
          ExitScope(i, exc, FALSE)
    \/ \E type \in Roles : TeardownIfAlive(type, FALSE)

SpecDep == InitAll /\ [][NextDep]_vars

\* ------------------------------------- InstanceManager, driven directly
\* The manager that is driven directly: the one of class "A"
IM == Manager("A")

\* InstanceManager.init(context=...) called directly; fails says that
\* entering the factory's context raises.
DoInit(fails) ==
    LET entered == IM.instance = NoInst
        factory == IF entered THEN 1 ELSE 0
        r == IMInit(IM, inits["A"] + 1, fails)
    IN /\ closing = {}
       /\ fails => entered
       /\ inits["A"] + factory <= MaxInits
       /\ instances' = SetManager("A", r.m)
       /\ inits' = [inits EXCEPT !["A"] = @ + factory]
       /\ last' = [Obs("im_init", "A") EXCEPT !.raised = r.exc,
                     !.factory = factory, !.m = r.m.instance]
       /\ UNCHANGED <<chvars, roles, weak_roles, closing, keep_alive,
                      reset_on_error_default, open_contexts, teardown_order,
                      scopes, reconfs>>

\* InstanceManager.teardown called directly, its cleanup code calling
\* nothing back; fails says that the cleanup raises.
DoTeardown(fails) ==
    LET r == IMTeardown(IM, fails)
    IN /\ closing = {}
       /\ fails => (is_alive(IM) /\ IM.cx)
       /\ instances' = SetManager("A", r.m)
       /\ last' = [Obs("im_teardown", "A") EXCEPT !.raised = r.exc,
                     !.m = IM.instance,
                     !.torn = IF is_alive(IM) /\ r.exc = NoExc
                              THEN <<"A">> ELSE <<>>]
       /\ UNCHANGED <<chvars, roles, weak_roles, closing, keep_alive,
                      reset_on_error_default, open_contexts, teardown_order,
                      inits, scopes, reconfs>>

\* InstanceManager.request(exclusive, keep_alive) called directly, entering
\* the scope
DoRequest(exclusive, ka) ==
    LET r == IMRequestEnter(IM, exclusive)
    IN /\ closing = {}
       /\ r.exc = NoExc => Len(scopes) < MaxScopes
       /\ instances' = SetManager("A", r.m)
       /\ scopes' = IF r.exc = NoExc
                    THEN Append(scopes, [cls |-> "A", exclusive |-> exclusive,
                                         ka |-> ka, roe |-> FALSE,
                                         m |-> r.m.instance])
                    ELSE scopes
       /\ last' = [Obs("im_request", "A") EXCEPT !.raised = r.exc,
                     !.exclusive = exclusive, !.ka = ka,
                     !.m = IF r.exc = NoExc THEN r.m.instance ELSE NoInst]
       /\ UNCHANGED <<chvars, roles, weak_roles, closing, keep_alive,
                      reset_on_error_default, open_contexts, teardown_order,
                      inits, reconfs>>

\* Leaving the i-th open InstanceManager.request scope, normally or with
\* the exception exc
DoExit(i, exc, fails) ==
    LET s == scopes[i]
        r == IMRequestExit(IM, s.exclusive, s.ka, exc, fails)
    IN /\ closing = {}
       /\ fails => (is_alive(IM) /\ IM.cx)
       /\ instances' = SetManager("A", r.m)
       /\ scopes' = Remove(scopes, i)
       /\ last' = [Obs("im_exit", "A") EXCEPT !.exc = exc, !.raised = r.exc,
                     !.exclusive = s.exclusive, !.ka = s.ka, !.m = s.m,
                     !.torn = Times(r.torn, "A")]
       /\ UNCHANGED <<chvars, roles, weak_roles, closing, keep_alive,
                      reset_on_error_default, open_contexts, teardown_order,
                      inits, reconfs>>

\* InstanceManager.teardown up to the point where ExitStack.close() has
\* popped the machine's exit callback and calls it: the cleanup code runs.
BeginTeardown ==
    /\ closing = {}
    /\ is_alive(IM)
    /\ IM.cx
    /\ instances' = SetManager("A", [IM EXCEPT !.cx = FALSE])
    /\ closing' = {"A"}
    /\ last' = [Obs("teardown_begin", "A") EXCEPT !.m = IM.instance]
    /\ UNCHANGED <<chvars, roles, weak_roles, keep_alive, reset_on_error_default,
                   open_contexts, teardown_order, inits, scopes, reconfs>>

\* The cleanup code of the machine calls InstanceManager.teardown of its own
\* manager (Context.teardown_if_alive does, when is_alive()): the ExitStack
\* is empty by now, so close() runs nothing.
NestedTeardown ==
    LET r == IMTeardown(IM, FALSE)
    IN /\ "A" \in closing
       /\ instances' = SetManager("A", r.m)
       /\ last' = [Obs("nested_teardown", "A") EXCEPT !.raised = r.exc,
                     !.m = IM.instance,
                     !.torn = IF r.exc = NoExc THEN <<"A">> ELSE <<>>]
       /\ UNCHANGED <<chvars, roles, weak_roles, closing, keep_alive,
                      reset_on_error_default, open_contexts, teardown_order,
                      inits, scopes, reconfs>>

\* The rest of InstanceManager.teardown: the cleanup code returns or raises
\* out of close(); `self._instance = None` runs only if it returned.
EndTeardown(fails) ==
    /\ "A" \in closing
    /\ closing' = {}
    /\ instances' = IF fails THEN instances
                    ELSE SetManager("A", [IM EXCEPT !.instance = NoInst])
    /\ last' = [Obs("teardown_end", "A") EXCEPT
                  !.raised = IF fails THEN CleanupError ELSE NoExc,
                  !.torn = IF fails THEN <<>> ELSE <<"A">>]
    /\ UNCHANGED <<chvars, roles, weak_roles, keep_alive, reset_on_error_default,
                   open_contexts, teardown_order, inits, scopes, reconfs>>

\* One InstanceManager and its callers
NextIM ==
    \/ \E fails \in BOOLEAN : DoInit(fails)
    \/ \E fails \in BOOLEAN : DoTeardown(fails)
    \/ \E exclusive \in BOOLEAN, ka \in BOOLEAN : DoRequest(exclusive, ka)
    \/ \E i \in 1..Len(scopes), exc \in {NoExc, BodyError}, fails \in BOOLEAN :
          DoExit(i, exc, fails)
    \/ BeginTeardown
    \/ NestedTeardown
    \/ \E fails \in BOOLEAN : EndTeardown(fails)

SpecIM == Init /\ [][NextIM]_vars

\* ------------------------------------------------------- registration
\* The role lists a register_machine call can be given (a single role is
\* wrapped into a list of one)
RoleLists == UNION {[1..n -> Roles] : n \in 0..MaxRoles}

\* A registration that overwrites every binding unless weak
RegisterRole_Overwrites(role, machine, weak, ro, wk) ==
    LET bind == [r \in DOMAIN ro \cup {role} |->
                    IF r = role THEN machine ELSE ro[r]]
    IN IF role \in DOMAIN ro /\ weak
       THEN [roles |-> ro, weak_roles |-> wk, exc |-> NoExc]
       ELSE [roles |-> bind,
             weak_roles |-> IF weak THEN wk \cup {role} ELSE wk \ {role},
             exc |-> NoExc]

\* One iteration of the loop of Context.register_machine: the role is
\* skipped (already bound, weak registration), refused (bound by a non-weak
\* registration) or bound to the machine class.
RegisterRole(role, machine, weak, ro, wk) ==
    LET bind == [r \in DOMAIN ro \cup {role} |->
                    IF r = role THEN machine ELSE ro[r]]
        wk1 == IF role \in DOMAIN ro THEN wk \ {role} ELSE wk
        wk2 == IF weak THEN wk1 \cup {role} ELSE wk1
    IN IF role \in DOMAIN ro /\ weak
       THEN [roles |-> ro, weak_roles |-> wk, exc |-> NoExc]
       ELSE IF role \in DOMAIN ro /\ role \notin wk
       THEN [roles |-> ro, weak_roles |-> wk, exc |-> KeyError]
       ELSE [roles |-> bind, weak_roles |-> wk2, exc |-> NoExc]

\* The loop of Context.register_machine over the roles rs, from the
\* bindings ro and the weak roles wk; the exception ends it.
RECURSIVE RegisterLoop(_, _, _, _, _)
RegisterLoop(rs, machine, weak, ro, wk) ==
    IF rs = <<>>
    THEN [roles |-> ro, weak_roles |-> wk, exc |-> NoExc]
    ELSE LET r == RegisterRole(Head(rs), machine, weak, ro, wk)
         IN IF r.exc # NoExc
            THEN r
            ELSE RegisterLoop(Tail(rs), machine, weak, r.roles, r.weak_roles)

\* Context.register_machine(machine, roles, weak=weak): after the loop the
\* code reads the loop variable `role`, which is unbound if the list was
\* empty.
Register(machine, rs, weak) ==
    LET r == RegisterLoop(rs, machine, weak, roles, weak_roles)
        exc == IF r.exc # NoExc THEN r.exc
               ELSE IF rs = <<>> THEN UnboundLocalError
               ELSE NoExc
    IN /\ roles' = r.roles
       /\ weak_roles' = r.weak_roles
       /\ last' = [rs |-> rs, weak |-> weak] @@
                  [Obs("register", machine) EXCEPT !.raised = exc]
       /\ UNCHANGED <<chvars, closing, instances, keep_alive, reset_on_error_default,
                      open_contexts, teardown_order, inits, scopes, reconfs>>

\* Context.__init__: nothing is registered yet
InitReg ==
    /\ roles = [r \in {} |-> "A"]
    /\ weak_roles = {}
    /\ closing = {}
    /\ instances = [c \in {} |-> NewManager]
    /\ keep_alive \in BOOLEAN
    /\ reset_on_error_default \in BOOLEAN
    /\ open_contexts = 0
    /\ teardown_order = <<>>
    /\ inits = [c \in Classes |-> 0]
    /\ scopes = <<>>
    /\ reconfs = <<>>
    /\ last = Obs("init", "-")
    /\ NoChannel

\* A configuration registering machines
NextReg ==
    \E machine \in Classes, rs \in RoleLists, weak \in BOOLEAN :
        Register(machine, rs, weak)

SpecReg == InitReg /\ [][NextReg]_vars

\* ------------------------------------------------------------- ChannelIO
\* rbot.exceptions / builtins raised on the channel side
ChannelClosed == "ChannelClosedException"
Timeout == "TimeoutError"

\* The ChannelIO variants over a real transport: ShellChannelIO's local
\* pty, SerialChannelIO and SSHChannelIO
Kinds == {"pty", "serial", "ssh"}

\* read()'s timeout argument: None, zero or a positive number of seconds
TNone == "None"
TZero == "zero"
TPos == "positive"
Timeouts == {TNone, TZero, TPos}

\* The bytes a far end sends in the ChannelIO specification
Bytes == {"a", "b"}

\* The first n elements of a sequence and the rest
Take(s, n) == SubSeq(s, 1, IF n < Len(s) THEN n ELSE Len(s))
Drop(s, n) == SubSeq(s, (IF n < Len(s) THEN n ELSE Len(s)) + 1, Len(s))

\* A transport of the given kind, just opened: eof says that the far end
\* (the bash process, the remote session, the device on the line) has
\* ended, open that close() was not called, rx holds the bytes that
\* arrived and were not read yet, tx the lines written
NewTransport(kind) ==
    [kind |-> kind, eof |-> FALSE, open |-> TRUE, rx |-> <<>>, tx |-> <<>>]

\* The closed property: the pty's process has exited (p.poll()), the
\* serial port is not open, the SSH session reported its exit status
closed(t) ==
    IF t.kind = "serial" THEN ~t.open ELSE t.eof \/ ~t.open

\* The outcome of a read: the bytes returned, the exception raised, the
\* transport afterwards; blocks says that the call does not return
Returned(t, n) ==
    [ret |-> Take(t.rx, n), exc |-> NoExc, blocks |-> FALSE,
     t |-> [t EXCEPT !.rx = Drop(t.rx, n)]]

Raised(t, exc) == [ret |-> <<>>, exc |-> exc, blocks |-> FALSE, t |-> t]

Blocked(t) == [ret |-> <<>>, exc |-> NoExc, blocks |-> TRUE, t |-> t]

\* A read that checks its deadline only after it took the data
ShellRead_DropsOnTimeout(t, n, timeout, dies) ==
    IF ~closed(t)
    THEN IF timeout = TZero
         THEN [Raised(t, Timeout) EXCEPT !.t.rx = Drop(t.rx, n)]
         ELSE IF t.rx # <<>> THEN Returned(t, n)
         ELSE IF dies THEN Raised([t EXCEPT !.eof = TRUE], ChannelClosed)
         ELSE IF timeout = TNone THEN Blocked(t)
         ELSE Raised(t, Timeout)
    ELSE IF t.rx # <<>> /\ t.open THEN Returned(t, n)
         ELSE Raised(t, ChannelClosed)

\* ShellChannelIO.read.  While the process runs the loop waits for data:
\* the deadline is checked before every select(), a timeout of zero has
\* passed at once; dies says that the process exits during the wait.  With
\* the process gone os.read() is called at once and fails without data.
ShellRead(t, n, timeout, dies) ==
    IF ~closed(t)
    THEN IF timeout = TZero THEN Raised(t, Timeout)
         ELSE IF t.rx # <<>> THEN Returned(t, n)
         ELSE IF dies THEN Raised([t EXCEPT !.eof = TRUE], ChannelClosed)
         ELSE IF timeout = TNone THEN Blocked(t)
         ELSE Raised(t, Timeout)
    ELSE IF t.rx # <<>> /\ t.open THEN Returned(t, n)
         ELSE Raised(t, ChannelClosed)

\* SerialChannelIO.read: blocks for the first byte only (0.1 s when the
\* timeout is None), an empty first read is a TimeoutError; the rest is read
\* without blocking.  The port does not tell whether the far end is there.
SerialRead(t, n, timeout, dies) ==
    IF closed(t) THEN Raised(t, ChannelClosed)
    ELSE IF t.rx = <<>> THEN Raised(t, Timeout)
    ELSE Returned(t, n)

\* SSHChannelIO.read: whatever paramiko's recv() gives is returned; recv()
\* returns data when there is some, an empty string once the stream has
\* ended, and raises socket.timeout when the timeout passes without data
SSHRead(t, n, timeout, dies) ==
    IF t.rx # <<>> THEN Returned(t, n)
    ELSE IF t.eof \/ ~t.open THEN Returned(t, n)
    ELSE IF dies THEN Returned([t EXCEPT !.eof = TRUE], n)
    ELSE IF timeout = TNone THEN Blocked(t)
    ELSE Raised(t, Timeout)

\* ChannelIO.read of the transport's variant
IORead(t, n, timeout, dies) ==
    CASE t.kind = "pty" -> ShellRead(t, n, timeout, dies)
      [] t.kind = "serial" -> SerialRead(t, n, timeout, dies)
      [] t.kind = "ssh" -> SSHRead(t, n, timeout, dies)

\* The Context of a test run whose machines are not requested
CtxUnused ==
    /\ roles = Registered
    /\ weak_roles = {}
    /\ closing = {}
    /\ instances = [c \in {} |-> NewManager]
    /\ keep_alive = FALSE
    /\ reset_on_error_default = FALSE
    /\ open_contexts = 0
    /\ teardown_order = <<>>
    /\ inits = [c \in Classes |-> 0]
    /\ scopes = <<>>
    /\ reconfs = <<>>
    /\ last = Obs("init", "-")

ctxvars == <<roles, weak_roles, closing, instances, keep_alive,
             reset_on_error_default, open_contexts, teardown_order, inits,
             scopes, reconfs, last>>

\* The far end sends a byte
Arrive(b) ==
    /\ ~tr.eof /\ tr.open
    /\ Len(tr.rx) < MaxRx
    /\ tr' = [tr EXCEPT !.rx = Append(@, b)]
    /\ obs' = [op |-> "arrive"]
    /\ UNCHANGED <<ctxvars, buf, pc, chans, bscopes>>

\* The far end ends: bash exits, the remote session ends, the device on
\* the serial line is switched off
FarEndCloses ==
    /\ ~tr.eof
    /\ tr' = [tr EXCEPT !.eof = TRUE]
    /\ obs' = [op |-> "eof"]
    /\ UNCHANGED <<ctxvars, buf, pc, chans, bscopes>>

\* A call of ChannelIO.read(n, timeout) that returns or raises; eof and rx
\* record the transport before the call
Read(n, timeout, dies) ==
    LET r == IORead(tr, n, timeout, dies)
    IN /\ tr.kind \in Kinds
       /\ ~r.blocks
       /\ tr' = r.t
       /\ obs' = [op |-> "read", n |-> n, timeout |-> timeout,
                  ret |-> r.ret, exc |-> r.exc, eof |-> tr.eof,
                  open |-> tr.open, rx |-> tr.rx]
       /\ UNCHANGED <<ctxvars, buf, pc, chans, bscopes>>

\* ChannelIO.close: raises on a closed channel, else closes the port or the
\* session; ShellChannelIO terminates the process and closes the pty
IOClose ==
    /\ tr.kind \in Kinds
    /\ IF closed(tr)
       THEN /\ obs' = [op |-> "close", exc |-> ChannelClosed]
            /\ tr' = tr
       ELSE /\ obs' = [op |-> "close", exc |-> NoExc]
            /\ tr' = [tr EXCEPT !.open = FALSE,
                                !.eof = IF tr.kind = "pty" THEN TRUE ELSE @]
    /\ UNCHANGED <<ctxvars, buf, pc, chans, bscopes>>

\* A ChannelIO of some variant was opened
InitIO ==
    /\ CtxUnused
    /\ tr \in {NewTransport(k) : k \in Kinds}
    /\ buf = <<>>
    /\ pc = [at |-> "-"]
    /\ chans = <<>>
    /\ bscopes = <<>>
    /\ obs = [op |-> "open"]

NextIO ==
    \/ \E b \in Bytes : Arrive(b)
    \/ FarEndCloses
    \/ \E n \in 1..MaxRead, timeout \in Timeouts, dies \in BOOLEAN :
          Read(n, timeout, dies)
    \/ IOClose

SpecIO == InitIO /\ [][NextIO]_vars

\* ------------------------------------------------- Channel and its shell
\* ShellChannelIO.write: what do the three outcomes of the write, "ok",
\* "stuck" (select() does not report the pty writable within 10 s) and
\* "zero" (os.write() wrote nothing)
WriteOutcomes == {"ok", "stuck", "zero"}

ShellWrite(t, line, how) ==
    IF closed(t) THEN Raised(t, ChannelClosed)
    ELSE IF how = "stuck" THEN Raised(t, Timeout)
    ELSE IF how = "zero" THEN Raised(t, ChannelClosed)
    ELSE [ret |-> <<>>, exc |-> NoExc, blocks |-> FALSE,
          t |-> [t EXCEPT !.tx = Append(@, line)]]

\* The first position at which pat occurs in s, 0 if it does not
Find(s, pat) ==
    LET At == {i \in 1..(Len(s) - Len(pat) + 1) :
                  SubSeq(s, i, i + Len(pat) - 1) = pat}
    IN IF At = {} THEN 0 ELSE CHOOSE i \in At : \A j \in At : i <= j

\* Channel.expect(pat, timeout), one round of its loop on the receive
\* buffer b and the transport t: a match in the buffer ends the call (done)
\* and consumes the buffer through the match, before holds what preceded
\* it; else a chunk is read with what is left of the timeout (rest) and
\* appended to the buffer.  An exception of the read leaves the call and
\* the buffer as it is.
ExpectRound(b, t, pat, rest, dies) ==
    LET at == Find(b, pat)
        r == IORead(t, MaxRead, rest, dies)
    IN IF at # 0
       THEN [done |-> TRUE, exc |-> NoExc, blocks |-> FALSE, t |-> t,
             buf |-> Drop(b, at + Len(pat) - 1), before |-> Take(b, at - 1),
             got |-> <<>>]
       ELSE [done |-> FALSE, exc |-> r.exc, blocks |-> r.blocks, t |-> r.t,
             buf |-> b \o r.ret, before |-> <<>>, got |-> r.ret]

\* The line wait_for_shell sends, what the terminal echoes of it, and the
\* marker the shell prints once it interprets the line
LoginLine == "echo RBOT\\LOGIN"
LoginEcho == <<"RBOT", "\\", "LOGIN">>
LoginMarker == <<"RBOT", "LOGIN">>

\* The pty of a ShellChannel with the bash process behind it: ready says
\* that bash reads its input, out holds what the terminal and bash have
\* written and the pty has not delivered yet
NewShell ==
    [kind |-> "pty", eof |-> FALSE, open |-> TRUE, rx |-> <<>>, tx |-> <<>>,
     ready |-> FALSE, out |-> <<>>]

\* wait_for_shell's timeouts, in tenths of a second
FirstTimeout == 2
RetryTimeout == 30

\* wait_for_shell is entered on a channel whose shell is starting.  Of the
\* routine pc holds the position (at), the local timeout, the lines sent,
\* the timeouts expect was called with (tlog), the expects that timed out
\* (timeouts), the exception that left the routine and the call it came
\* from (src); of the running expect the buffer at its start (buf0) and the
\* bytes it has read (got).
InitHs ==
    /\ CtxUnused
    /\ tr = NewShell
    /\ buf = <<>>
    /\ pc = [at |-> "send", timeout |-> FirstTimeout, sent |-> 0,
             tlog |-> <<>>, timeouts |-> 0, exc |-> NoExc, src |-> "-",
             buf0 |-> <<>>, got |-> <<>>]
    /\ chans = <<>>
    /\ bscopes = <<>>
    /\ obs = [op |-> "open"]

\* A handler that leaves the timeout as it is
WaitRetry_KeepsTimeout(p) ==
    [p EXCEPT !.at = "send", !.timeouts = @ + 1]

\* wait_for_shell, `except TimeoutError: timeout = 3.0`, and the loop
WaitRetry(p) ==
    [p EXCEPT !.at = "send", !.timeout = RetryTimeout, !.timeouts = @ + 1]

\* wait_for_shell: ch.sendline("echo RBOT\\LOGIN"), outside of the try, then
\* the call of ch.expect with the current timeout.  The terminal echoes
\* the line.
WaitSend(how) ==
    LET w == ShellWrite(tr, LoginLine, how)
    IN /\ pc.at = "send"
       /\ pc.sent < MaxAttempts
       /\ IF w.exc # NoExc
          THEN /\ pc' = [pc EXCEPT !.at = "raised", !.exc = w.exc,
                                   !.src = "sendline"]
               /\ tr' = w.t
          ELSE /\ pc' = [pc EXCEPT !.at = "expect", !.sent = @ + 1,
                                   !.tlog = Append(@, pc.timeout),
                                   !.buf0 = buf, !.got = <<>>]
               /\ tr' = [w.t EXCEPT !.out = @ \o LoginEcho]
       /\ obs' = [op |-> "sendline", exc |-> w.exc]
       /\ UNCHANGED <<ctxvars, buf, chans, bscopes>>

\* try: ch.expect("RBOTLOGIN", timeout=timeout), one round of expect's
\* loop.  Nothing is left of the timeout (rest) only after an earlier read.
\* A TimeoutError is handled by wait_for_shell, everything else leaves it.
WaitExpect(rest, dies) ==
    LET e == ExpectRound(buf, tr, LoginMarker, rest, dies)
    IN /\ pc.at = "expect"
       /\ rest = TZero => pc.got # <<>>
       /\ ~e.blocks
       /\ buf' = e.buf
       /\ tr' = e.t
       /\ obs' = [op |-> "expect", exc |-> e.exc]
       /\ pc' = IF e.done THEN [pc EXCEPT !.at = "done"]
                ELSE IF e.exc = NoExc THEN [pc EXCEPT !.got = @ \o e.got]
                ELSE IF e.exc = Timeout THEN WaitRetry(pc)
                ELSE [pc EXCEPT !.at = "raised", !.exc = e.exc,
                                !.src = "expect"]
       /\ UNCHANGED <<ctxvars, chans, bscopes>>

\* bash gets ready to read its input
ShellStarts ==
    /\ ~tr.ready /\ ~tr.eof
    /\ tr' = [tr EXCEPT !.ready = TRUE]
    /\ obs' = [op |-> "ready"]
    /\ UNCHANGED <<ctxvars, buf, pc, chans, bscopes>>

\* bash interprets the next echo line and prints the marker
ShellPrintsMarker ==
    /\ tr.ready /\ ~tr.eof
    /\ tr.tx # <<>> /\ Head(tr.tx) = LoginLine
    /\ tr' = [tr EXCEPT !.tx = Tail(@), !.out = @ \o LoginMarker]
    /\ obs' = [op |-> "marker"]
    /\ UNCHANGED <<ctxvars, buf, pc, chans, bscopes>>

\* The pty delivers the next byte
Deliver ==
    /\ tr.out # <<>>
    /\ tr' = [tr EXCEPT !.out = Tail(@), !.rx = Append(@, Head(tr.out))]
    /\ obs' = [op |-> "deliver"]
    /\ UNCHANGED <<ctxvars, buf, pc, chans, bscopes>>

NextHs ==
    \/ \E how \in WriteOutcomes : WaitSend(how)
    \/ \E rest \in {TPos, TZero}, dies \in BOOLEAN : WaitExpect(rest, dies)
    \/ ShellStarts
    \/ ShellPrintsMarker
    \/ Deliver
    \/ FarEndCloses

SpecHs == InitHs /\ [][NextHs]_vars

\* ------------------------------------------------------ PosixChannel.exec
InvalidRetcode == "InvalidRetcodeException"
CommandFailure == "CommandFailureException"

\* Text is a sequence of characters
Digit == <<"0", "1", "2", "3", "4", "5", "6", "7", "8", "9">>
Digits == {Digit[i] : i \in 1..10}
DigitValue(c) == (CHOOSE i \in 1..10 : Digit[i] = c) - 1
Whitespace == {" ", "\n", "\r", "\t"}

\* str(n) of a natural number
RECURSIVE Str(_)
Str(n) == IF n < 10 THEN <<Digit[n + 1]>>
          ELSE Append(Str(n \div 10), Digit[(n % 10) + 1])

\* str.strip()
RECURSIVE LStrip(_)
LStrip(s) == IF s # <<>> /\ Head(s) \in Whitespace THEN LStrip(Tail(s)) ELSE s

RECURSIVE RStrip(_)
RStrip(s) == IF s # <<>> /\ s[Len(s)] \in Whitespace
             THEN RStrip(SubSeq(s, 1, Len(s) - 1)) ELSE s

\* The value of a string of digits and underscores
RECURSIVE Decimal(_)
Decimal(s) == IF s = <<>> THEN 0
              ELSE IF s[Len(s)] = "_" THEN Decimal(SubSeq(s, 1, Len(s) - 1))
              ELSE 10 * Decimal(SubSeq(s, 1, Len(s) - 1)) + DigitValue(s[Len(s)])

\* An int() that reads the first digit only
PyInt_FirstDigit(s) ==
    LET t == RStrip(LStrip(s))
    IN IF t # <<>> /\ t[1] \in Digits
       THEN [ok |-> TRUE, val |-> DigitValue(t[1])]
       ELSE [ok |-> FALSE, val |-> 0]

\* int(s) of a str: surrounding whitespace is ignored, a sign may lead,
\* digits follow, single underscores may separate digits; anything else is
\* a ValueError (ok is FALSE)
PyInt(s) ==
    LET t == RStrip(LStrip(s))
        signed == t # <<>> /\ t[1] \in {"+", "-"}
        d == IF signed THEN Tail(t) ELSE t
        wellFormed ==
            /\ d # <<>>
            /\ \A i \in 1..Len(d) : d[i] \in Digits \cup {"_"}
            /\ d[1] # "_" /\ d[Len(d)] # "_"
            /\ \A i \in 1..(Len(d) - 1) : ~(d[i] = "_" /\ d[i + 1] = "_")
    IN IF wellFormed
       THEN [ok |-> TRUE,
             val |-> IF signed /\ t[1] = "-" THEN 0 - Decimal(d) ELSE Decimal(d)]
       ELSE [ok |-> FALSE, val |-> 0]

\* The prompt (RBOT_PROMPT), the escaped command line of an exec, the
\* retcode probe
Prompt == "RBOT-TESTVC9QK$ "
CmdLine == "cmd"
ProbeLine == "echo $?"

\* What a command prints (never the prompt), and what may precede the
\* shell's answer to the probe on the line (nothing, or output that is not
\* the shell's)
CmdOutputs == {<<>>, <<"o", "\n">>}
Noises == {<<>>, <<"x">>}
ExitCodes == 0..255

\* exec or exec0 is called on a channel whose shell shows the prompt: the
\* command will print cmdout and exit with code; status is the shell's $?.
\* Of the call pc holds the position (at), the lines it sent, the output and
\* the probe's answer it read, the retcode, what exec0 returned (ret) and
\* the exception that left the call.
InitEx ==
    /\ CtxUnused
    /\ \E code \in ExitCodes, cmdout \in CmdOutputs, noise \in Noises :
          tr = [kind |-> "pty", eof |-> FALSE, open |-> TRUE, rx |-> <<>>,
                tx |-> <<>>, ready |-> TRUE, out |-> <<>>, code |-> code,
                cmdout |-> cmdout, noise |-> noise, status |-> 0,
                ran |-> <<>>]
    /\ buf = <<>>
    /\ \E fn \in {"exec", "exec0"} :
          pc = [fn |-> fn, at |-> "send_cmd", sent |-> <<>>, out |-> <<>>,
                retcode_str |-> <<>>, retcode |-> 0, ret |-> <<>>,
                exc |-> NoExc]
    /\ chans = <<>>
    /\ bscopes = <<>>
    /\ obs = [op |-> "open"]

\* self.sendline(cmd, read_back=True) of exec and
\* ch.sendline("echo $?", read_back=True) of posix_fetch_return_code; the
\* echo of the line is read back by sendline
ExecSend(how) ==
    LET line == IF pc.at = "send_cmd" THEN CmdLine ELSE ProbeLine
        w == ShellWrite(tr, line, how)
    IN /\ pc.at \in {"send_cmd", "send_probe"}
       /\ tr' = w.t
       /\ pc' = IF w.exc # NoExc
                THEN [pc EXCEPT !.at = "raised", !.exc = w.exc]
                ELSE [pc EXCEPT !.sent = Append(@, line),
                                !.at = IF pc.at = "send_cmd" THEN "read_out"
                                       ELSE "read_rc"]
       /\ obs' = [op |-> "sendline", exc |-> w.exc]
       /\ UNCHANGED <<ctxvars, buf, chans, bscopes>>

\* A fetch that asks again when the answer is not a number
FetchParse_Retries(p, str) ==
    LET v == PyInt(str)
    IN IF v.ok
       THEN [p EXCEPT !.retcode_str = str, !.retcode = v.val, !.at = "done"]
       ELSE [p EXCEPT !.retcode_str = str, !.at = "send_probe"]

\* posix_fetch_return_code: return int(retcode_str), a ValueError becomes
\* InvalidRetcodeException; exec then returns (retcode, out)
FetchParse(p, str) ==
    LET v == PyInt(str)
    IN IF v.ok
       THEN [p EXCEPT !.retcode_str = str, !.retcode = v.val, !.at = "done"]
       ELSE [p EXCEPT !.retcode_str = str, !.at = "raised",
                      !.exc = InvalidRetcode]

\* out = self.read_until_prompt() of exec and retcode_str =
\* ch.read_until_prompt() of posix_fetch_return_code, one round of the
\* expect for the prompt, without timeout; the call returns what the
\* buffer held before the prompt
ExecRead(dies) ==
    LET e == ExpectRound(buf, tr, <<Prompt>>, TNone, dies)
    IN /\ pc.at \in {"read_out", "read_rc"}
       /\ ~e.blocks
       /\ buf' = e.buf
       /\ tr' = e.t
       /\ obs' = [op |-> "read_until_prompt", exc |-> e.exc,
                  done |-> e.done]
       /\ pc' = IF e.exc # NoExc
                THEN [pc EXCEPT !.at = "raised", !.exc = e.exc]
                ELSE IF ~e.done THEN pc
                ELSE IF pc.at = "read_out"
                THEN [pc EXCEPT !.out = e.before, !.at = "send_probe"]
                ELSE FetchParse(pc, e.before)
       /\ UNCHANGED <<ctxvars, chans, bscopes>>

\* exec0, after exec returned: a retcode other than 0 raises
\* CommandFailureException, else the output is returned
Exec0Result(p) ==
    IF p.retcode # 0
    THEN [p EXCEPT !.at = "raised", !.exc = CommandFailure]
    ELSE [p EXCEPT !.at = "returned", !.ret = p.out]

Exec0Return ==
    /\ pc.fn = "exec0" /\ pc.at = "done"
    /\ pc' = Exec0Result(pc)
    /\ obs' = [op |-> "exec0", exc |-> pc'.exc]
    /\ UNCHANGED <<ctxvars, tr, buf, chans, bscopes>>

\* bash runs the next line it was sent: the command prints its output and
\* sets $?, the probe prints $? on a line of its own; the prompt follows
ShellRuns ==
    /\ tr.ready /\ ~tr.eof
    /\ tr.tx # <<>> /\ Head(tr.tx) \in {CmdLine, ProbeLine}
    /\ LET line == Head(tr.tx)
           printed == IF line = CmdLine THEN tr.cmdout
                      ELSE tr.noise \o Str(tr.status) \o <<"\n">>
       IN tr' = [tr EXCEPT !.tx = Tail(@), !.ran = Append(@, line),
                           !.out = @ \o printed \o <<Prompt>>,
                           !.status = IF line = CmdLine THEN tr.code ELSE 0]
    /\ obs' = [op |-> "runs"]
    /\ UNCHANGED <<ctxvars, buf, pc, chans, bscopes>>

NextEx ==
    \/ \E how \in WriteOutcomes : ExecSend(how)
    \/ \E dies \in BOOLEAN : ExecRead(dies)
    \/ Exec0Return
    \/ ShellRuns
    \/ Deliver
    \/ FarEndCloses

SpecEx == InitEx /\ [][NextEx]_vars

\* ------------------------------------------- PosixChannel.interactive
\* The end of interactive(): what follows attach_interactive.  The user's
\* shell (inner) ran inside a shell whose prompt is the end marker (outer),
\* which ran inside the machine's shell, whose prompt is Prompt.
ExitLine == "exit"
EndStr == "INTERACTIVE-END"
Failed == "Exception"    \* "Failed to reacquire shell after interactive session!"

\* attach_interactive has returned; nested says how many of the two shells
\* are still running.  Of interactive pc holds the position (at), the
\* read_until_prompt calls that timed out, the exception that left the
\* call, and the bytes the running read_until_prompt has read (got).
InitInt ==
    /\ CtxUnused
    /\ \E nested \in 0..2 :
          tr = [kind |-> "pty", eof |-> FALSE, open |-> TRUE, rx |-> <<>>,
                tx |-> <<>>, ready |-> TRUE, out |-> <<>>, nested |-> nested,
                ran |-> <<>>, prompts |-> 0]
    /\ buf = <<>>
    /\ pc = [at |-> "exit1", timeouts |-> 0, exc |-> NoExc, got |-> <<>>]
    /\ chans = <<>>
    /\ bscopes = <<>>
    /\ obs = [op |-> "attach_interactive"]

\* A handler that tries again after every timeout
InteractiveTimeout_TriesAgain(p) ==
    [p EXCEPT !.at = "exit2", !.timeouts = @ + 1]

\* interactive's handlers of TimeoutError: after the first
\* read_until_prompt 'exit' is sent again, after the second the call
\* fails
InteractiveTimeout(p) ==
    IF p.at = "wait1"
    THEN [p EXCEPT !.at = "exit2", !.timeouts = @ + 1]
    ELSE [p EXCEPT !.at = "raised", !.exc = Failed, !.timeouts = @ + 1]

\* self.sendline("exit"), the first inside the outer try, the second inside
\* the handler of the inner one: its TimeoutError makes the call fail,
\* every other exception leaves the call as it is
InteractiveSend(how) ==
    LET w == ShellWrite(tr, ExitLine, how)
    IN /\ pc.at \in {"exit1", "exit2"}
       /\ tr' = w.t
       /\ pc' = IF w.exc = Timeout
                THEN [pc EXCEPT !.at = "raised", !.exc = Failed]
                ELSE IF w.exc # NoExc
                THEN [pc EXCEPT !.at = "raised", !.exc = w.exc]
                ELSE [pc EXCEPT !.at = IF pc.at = "exit1" THEN "wait1"
                                       ELSE "wait2",
                                !.got = <<>>]
       /\ obs' = [op |-> "sendline", exc |-> w.exc]
       /\ UNCHANGED <<ctxvars, buf, chans, bscopes>>

\* self.read_until_prompt(timeout=0.5), one round of the expect for the
\* prompt.  Nothing is left of the timeout (rest) only after an earlier
\* read.
InteractiveRead(rest, dies) ==
    LET e == ExpectRound(buf, tr, <<Prompt>>, rest, dies)
    IN /\ pc.at \in {"wait1", "wait2"}
       /\ rest = TZero => pc.got # <<>>
       /\ ~e.blocks
       /\ buf' = e.buf
       /\ tr' = e.t
       /\ obs' = [op |-> "read_until_prompt", exc |-> e.exc]
       /\ pc' = IF e.done THEN [pc EXCEPT !.at = "returned"]
                ELSE IF e.exc = NoExc THEN [pc EXCEPT !.got = @ \o e.got]
                ELSE IF e.exc = Timeout THEN InteractiveTimeout(pc)
                ELSE [pc EXCEPT !.at = "raised", !.exc = e.exc]
       /\ UNCHANGED <<ctxvars, chans, bscopes>>

\* The shell that reads the line runs `exit`: it ends and the shell around
\* it prints its prompt; when the machine's own shell ends the pty is at
\* its end
ShellExits ==
    /\ tr.ready /\ ~tr.eof
    /\ tr.tx # <<>> /\ Head(tr.tx) = ExitLine
    /\ tr' = IF tr.nested = 0
             THEN [tr EXCEPT !.tx = Tail(@), !.ran = Append(@, ExitLine),
                             !.eof = TRUE]
             ELSE [tr EXCEPT !.tx = Tail(@), !.ran = Append(@, ExitLine),
                             !.nested = @ - 1,
                             !.out = @ \o (IF tr.nested = 1 THEN <<Prompt>>
                                           ELSE <<EndStr>>),
                             !.prompts = IF tr.nested = 1 THEN @ + 1 ELSE @]
    /\ obs' = [op |-> "exits"]
    /\ UNCHANGED <<ctxvars, buf, pc, chans, bscopes>>

NextInt ==
    \/ \E how \in WriteOutcomes : InteractiveSend(how)
    \/ \E rest \in {TPos, TZero}, dies \in BOOLEAN : InteractiveRead(rest, dies)
    \/ ShellExits
    \/ Deliver
    \/ FarEndCloses

SpecInt == InitInt /\ [][NextInt]_vars

\* ------------------------------------------------- borrow, take, run
ChannelBorrowed == "ChannelBorrowedException"
ChannelTaken == "ChannelTakenException"
CommandEnded == "CommandEndedException"
AssertionError == "AssertionError"
RuntimeError == "RuntimeError"
IndexError == "IndexError"
GenError == "GenError"      \* raised by the code of a runctx generator
Interrupt == "KeyboardInterrupt"

\* What a Channel's _c can refer to: the ChannelIO itself ("io") or a stub
\* whose every operation raises: ChannelBorrowed, ChannelTaken or, for a
\* proxy, CommandEndedChannel.  Stub(c) is what an operation raises.
Stub(c) ==
    CASE c = "io" -> NoExc
      [] c = "borrowed" -> ChannelBorrowed
      [] c = "taken" -> ChannelTaken
      [] c = "ended" -> CommandEnded

\* A Channel over the ChannelIO, and a RunCommandProxy made of a borrowed
\* channel by __new__/__init__: alive is _proxy_alive, c2 is _c2, gen the
\* state of the runctx generator _cmd_context.  gave and revoked record
\* history: the object gave the channel away itself (take, _pre_terminate,
\* a terminate that succeeded); the borrow scope it came from has closed.
NewChannel ==
    [c |-> "io", kind |-> "channel", alive |-> FALSE, c2 |-> "-",
     gen |-> "-", gave |-> FALSE, revoked |-> FALSE]

NewProxy ==
    [c |-> "io", kind |-> "proxy", alive |-> TRUE, c2 |-> "io",
     gen |-> "suspended", gave |-> FALSE, revoked |-> FALSE]

\* A machine has opened its channel
InitOwn ==
    /\ CtxUnused
    /\ tr = NewTransport("pty")
    /\ buf = <<>>
    /\ pc = [at |-> "-"]
    /\ chans = <<NewChannel>>
    /\ bscopes = <<>>
    /\ obs = [op |-> "open", ch |-> 1, exc |-> NoExc]

\* An operation of the Channel interface (sendline, read, expect, ...) on
\* object i
Use(i) ==
    /\ obs' = [op |-> "use", ch |-> i, exc |-> Stub(chans[i].c)]
    /\ UNCHANGED <<ctxvars, tr, buf, pc, chans, bscopes>>

\* Channel.borrow on object i, entering the scope: the parent's operations
\* raise ChannelBorrowed from now on, the borrower works on the ChannelIO
Borrowing(chs, i, borrower) ==
    Append([chs EXCEPT ![i].c = "borrowed"], borrower)

\* Channel.borrow, leaving the scope: control returns to the parent, the
\* borrower's operations raise from now on
Releasing(chs, sc) ==
    [chs EXCEPT ![sc.parent].c = "io",
                ![sc.borrower].c = IF @ = "io" THEN "taken" ELSE @,
                ![sc.borrower].revoked = TRUE]

\* with c.borrow() as b:
Borrow(i) ==
    /\ chans[i].kind = "channel"
    /\ Len(chans) < MaxChans
    /\ IF Stub(chans[i].c) # NoExc
       THEN /\ obs' = [op |-> "borrow", ch |-> i, exc |-> Stub(chans[i].c)]
            /\ UNCHANGED <<chans, bscopes>>
       ELSE /\ chans' = Borrowing(chans, i, NewChannel)
            /\ bscopes' = Append(bscopes, [parent |-> i, run |-> FALSE,
                                           borrower |-> Len(chans) + 1])
            /\ obs' = [op |-> "borrow", ch |-> i, exc |-> NoExc]
    /\ UNCHANGED <<ctxvars, tr, buf, pc>>

\* The innermost borrow scope
Innermost == bscopes[Len(bscopes)]

\* The end of the innermost `with c.borrow()` block
BorrowExit ==
    /\ bscopes # <<>> /\ ~Innermost.run
    /\ chans' = Releasing(chans, Innermost)
    /\ bscopes' = SubSeq(bscopes, 1, Len(bscopes) - 1)
    /\ obs' = [op |-> "borrow_exit", ch |-> Innermost.parent, exc |-> NoExc]
    /\ UNCHANGED <<ctxvars, tr, buf, pc>>

\* c2 = c.take(): c is inert for good, the new object owns the ChannelIO
TakeChannel(i) ==
    /\ chans[i].kind = "channel"
    /\ Len(chans) < MaxChans
    /\ IF Stub(chans[i].c) # NoExc
       THEN /\ obs' = [op |-> "take", ch |-> i, exc |-> Stub(chans[i].c)]
            /\ chans' = chans
       ELSE /\ chans' = Append([chans EXCEPT ![i].c = "taken",
                                             ![i].gave = TRUE], NewChannel)
            /\ obs' = [op |-> "take", ch |-> i, exc |-> NoExc]
    /\ UNCHANGED <<ctxvars, tr, buf, pc, bscopes>>

\* What the runctx generator does when terminate() resumes it: it returns
\* the (retcode, output) pair, returns something else, yields once more,
\* or raises
GenOutcomes == {"stop", "stop_bad", "yield", "raise"}

\* What the runctx generator does with an exception thrown into it: lets it
\* through, returns, yields once more, or raises another one
GenReactions == {"reraise", "return", "yield", "other"}

Retcodes == {0, 1}

terminate_NoAssert(p, outcome) ==
    LET q == [p EXCEPT !.c = p.c2] IN
    CASE p.gen = "finished" -> [p |-> q, exc |-> IndexError]
      [] p.gen # "finished" /\ outcome = "stop" ->
            [p |-> [q EXCEPT !.alive = FALSE, !.c = "ended",
                             !.gen = "finished", !.gave = TRUE],
             exc |-> NoExc]
      [] p.gen # "finished" /\ outcome = "stop_bad" ->
            [p |-> [q EXCEPT !.gen = "finished"], exc |-> AssertionError]
      [] p.gen # "finished" /\ outcome = "yield" ->
            [p |-> q, exc |-> RuntimeError]
      [] p.gen # "finished" /\ outcome = "raise" ->
            [p |-> [q EXCEPT !.gen = "finished"], exc |-> GenError]

\* RunCommandProxy.terminate on proxy p: the proxy afterwards and the
\* exception raised.  An exhausted generator makes next() raise a
\* StopIteration without a value, and s.args[0] an IndexError.
terminate(p, outcome) ==
    IF ~p.alive
    THEN [p |-> p, exc |-> AssertionError]
    ELSE LET q == [p EXCEPT !.c = p.c2] IN
         CASE p.gen = "finished" -> [p |-> q, exc |-> IndexError]
           [] p.gen # "finished" /\ outcome = "stop" ->
                 [p |-> [q EXCEPT !.alive = FALSE, !.c = "ended",
                                  !.gen = "finished", !.gave = TRUE],
                  exc |-> NoExc]
           [] p.gen # "finished" /\ outcome = "stop_bad" ->
                 [p |-> [q EXCEPT !.gen = "finished"], exc |-> AssertionError]
           [] p.gen # "finished" /\ outcome = "yield" ->
                 [p |-> q, exc |-> RuntimeError]
           [] p.gen # "finished" /\ outcome = "raise" ->
                 [p |-> [q EXCEPT !.gen = "finished"], exc |-> GenError]

\* RunCommandProxy.terminate0: terminate, then the return code is checked
terminate0(p, outcome, retcode) ==
    LET t == terminate(p, outcome) IN
    IF t.exc = NoExc /\ retcode # 0
    THEN [p |-> t.p, exc |-> CommandFailure]
    ELSE t

assert_end_Silent(p) == NoExc

\* RunCommandProxy._assert_end
assert_end(p) == IF p.alive THEN RuntimeError ELSE NoExc

\* _cmd_context.throw(e) in _ctx: the generator afterwards and what throw
\* raises.  A generator that has ended raises what is thrown into it; one
\* that returns ends _ctx with a StopIteration, a RuntimeError for the
\* caller of the context manager.
Throw(p, reaction) ==
    CASE p.gen = "finished" -> [p |-> p, exc |-> BodyError]
      [] p.gen # "finished" /\ reaction = "reraise" ->
            [p |-> [p EXCEPT !.gen = "finished"], exc |-> BodyError]
      [] p.gen # "finished" /\ reaction = "return" ->
            [p |-> [p EXCEPT !.gen = "finished"], exc |-> RuntimeError]
      [] p.gen # "finished" /\ reaction = "yield" ->
            [p |-> p, exc |-> NoExc]
      [] p.gen # "finished" /\ reaction = "other" ->
            [p |-> [p EXCEPT !.gen = "finished"], exc |-> GenError]

\* with RunCommandProxy._ctx(channel, ...) as proxy: on channel i.  The
\* generator runs to its first yield in __init__; if it raises there the
\* with block of borrow() is left at once and no proxy reaches the caller.
RunEnter(i, startFails) ==
    /\ chans[i].kind = "channel"
    /\ Len(chans) < MaxChans
    /\ IF Stub(chans[i].c) # NoExc
       THEN /\ obs' = [op |-> "run", ch |-> i, exc |-> Stub(chans[i].c)]
            /\ UNCHANGED <<chans, bscopes>>
       ELSE IF startFails
       THEN /\ obs' = [op |-> "run", ch |-> i, exc |-> GenError]
            /\ UNCHANGED <<chans, bscopes>>
       ELSE /\ chans' = Borrowing(chans, i, NewProxy)
            /\ bscopes' = Append(bscopes, [parent |-> i, run |-> TRUE,
                                           borrower |-> Len(chans) + 1])
            /\ obs' = [op |-> "run", ch |-> i, exc |-> NoExc]
    /\ UNCHANGED <<ctxvars, tr, buf, pc>>

\* How the body of a run context ends: normally, with an Exception, or
\* with a BaseException that `except Exception` does not catch
BodyEnds == {"normal", "exception", "interrupt"}

\* The rest of _ctx after the yield, for proxy p: the proxy afterwards and
\* the exception that leaves the context
CtxEnd(p, how, reaction) ==
    CASE how = "normal" -> [p |-> p, exc |-> assert_end(p)]
      [] how = "interrupt" -> [p |-> p, exc |-> Interrupt]
      [] how = "exception" ->
            LET t == Throw(p, reaction) IN
            IF t.exc # NoExc THEN t ELSE [p |-> t.p, exc |-> assert_end(t.p)]

\* The end of the innermost run context
RunExit(how, reaction) ==
    /\ bscopes # <<>> /\ Innermost.run
    /\ LET sc == Innermost
           e == CtxEnd(chans[sc.borrower], how, reaction) IN
       /\ chans' = Releasing([chans EXCEPT ![sc.borrower] = e.p], sc)
       /\ obs' = [op |-> "run_exit", ch |-> sc.parent, proxy |-> sc.borrower,
                  how |-> how, alive |-> chans[sc.borrower].alive,
                  exc |-> e.exc]
    /\ bscopes' = SubSeq(bscopes, 1, Len(bscopes) - 1)
    /\ UNCHANGED <<ctxvars, tr, buf, pc>>

\* RunCommandProxy._pre_terminate, called by the generator's helpers when
\* they see that the command has ended
PreTerminate(i) ==
    /\ chans[i].kind = "proxy" /\ chans[i].alive /\ ~chans[i].revoked
    /\ chans' = [chans EXCEPT ![i].c = "ended", ![i].gave = TRUE]
    /\ obs' = [op |-> "pre_terminate", ch |-> i, exc |-> NoExc]
    /\ UNCHANGED <<ctxvars, tr, buf, pc, bscopes>>

\* proxy.terminate()
Terminate(i, outcome) ==
    /\ chans[i].kind = "proxy"
    /\ LET t == terminate(chans[i], outcome) IN
       /\ chans' = [chans EXCEPT ![i] = t.p]
       /\ obs' = [op |-> "terminate", ch |-> i, exc |-> t.exc,
                  alive |-> chans[i].alive]
    /\ UNCHANGED <<ctxvars, tr, buf, pc, bscopes>>

\* proxy.terminate0()
Terminate0(i, outcome, retcode) ==
    /\ chans[i].kind = "proxy"
    /\ LET t == terminate0(chans[i], outcome, retcode) IN
       /\ chans' = [chans EXCEPT ![i] = t.p]
       /\ obs' = [op |-> "terminate0", ch |-> i, exc |-> t.exc,
                  alive |-> chans[i].alive, retcode |-> retcode]
    /\ UNCHANGED <<ctxvars, tr, buf, pc, bscopes>>

NextOwn ==
    \/ \E i \in 1..Len(chans) : Use(i)
    \/ \E i \in 1..Len(chans) : Borrow(i)
    \/ BorrowExit
    \/ \E i \in 1..Len(chans) : TakeChannel(i)
    \/ \E i \in 1..Len(chans), startFails \in BOOLEAN : RunEnter(i, startFails)
    \/ \E how \in BodyEnds, reaction \in GenReactions : RunExit(how, reaction)
    \/ \E i \in 1..Len(chans) : PreTerminate(i)
    \/ \E i \in 1..Len(chans), outcome \in GenOutcomes : Terminate(i, outcome)
    \/ \E i \in 1..Len(chans), outcome \in GenOutcomes, retcode \in Retcodes :
          Terminate0(i, outcome, retcode)

SpecOwn == InitOwn /\ [][NextOwn]_vars

\* ------------------------------------------------- testcases, run_test
\* The registry Context._testcases and run_test.  The registry is kept in
\* pc.testcases in registration order (a dict iterates in insertion order);
\* obs is what the last call did.  A testcase is a name and what its
\* undecorated function does when called: return a value or raise.

\* Python values a testcase function returns: ints, True, None, a string
RetInt(n) == [t |-> "int", v |-> n]
RetTrue == [t |-> "bool", v |-> 1]
RetNone == [t |-> "NoneType", v |-> 0]
RetStr == [t |-> "str", v |-> 0]
Rets == {RetInt(n) : n \in -1..2} \cup {RetTrue, RetNone, RetStr}

\* isinstance(ret, int): bool is a subclass of int
IsInt(ret) == ret.t \in {"int", "bool"}

TestNames == {"tc1", "tc2", "tc3"}

\* What the function under the decorator does: an Exception (BodyError),
\* a BaseException that is no Exception (KeyboardInterrupt), or a return
Bodies ==
    {[raises |-> NoExc, ret |-> v] : v \in Rets}
        \cup {[raises |-> e, ret |-> RetNone] : e \in {BodyError, Interrupt}}

\* A wrapper that lets the testcase's exception through
wrapped_Reraises(tc) ==
    IF tc.raises # NoExc
    THEN [raised |-> tc.raises, ret |-> RetNone, ended |-> FALSE, result |-> FALSE]
    ELSE [raised |-> NoExc, ret |-> tc.ret, ended |-> TRUE,
          result |-> (IsInt(tc.ret) /\ tc.ret.v = 0) \/ tc.ret = RetNone]

\* The wrapper of @testcase: the value it returns or the exception it lets
\* through, whether it logged testcase_end and with which result
wrapped(tc) ==
    IF tc.raises = BodyError
    THEN [raised |-> NoExc, ret |-> RetNone, ended |-> TRUE, result |-> FALSE]
    ELSE IF tc.raises # NoExc
    THEN [raised |-> tc.raises, ret |-> RetNone, ended |-> FALSE, result |-> FALSE]
    ELSE [raised |-> NoExc, ret |-> tc.ret, ended |-> TRUE,
          result |-> (IsInt(tc.ret) /\ tc.ret.v = 0) \/ tc.ret = RetNone]

\* run_test's loop body: a return value that is no int counts as 0
Counted(ret) == IF ~IsInt(ret) THEN RetInt(0) ELSE ret

\* An aggregate that is the latest value
Aggregate_Latest(aggr_result, ret) == ret

\* run_test's loop body: the aggregate after a testcase returned ret
Aggregate(aggr_result, ret) ==
    IF ret.v > aggr_result.v THEN ret ELSE aggr_result

\* run_test's loop body: whether the loop ends after a testcase returned ret
Break(stop_on_fail, ret) == stop_on_fail /\ ret.v > 0

\* run_test's loop from the k-th registered testcase on: the testcases it
\* ran, the values they returned, the results logged, and the value
\* run_test returns or the exception it raises
RECURSIVE RunLoop(_, _, _, _)
RunLoop(tcs, k, aggr_result, stop_on_fail) ==
    IF k > Len(tcs)
    THEN [ran |-> <<>>, rets |-> <<>>, logged |-> <<>>, ret |-> aggr_result,
          raised |-> NoExc]
    ELSE LET w == wrapped(tcs[k].tc)
         IN IF w.raised # NoExc
            THEN [ran |-> <<tcs[k].name>>, rets |-> <<>>, logged |-> <<>>,
                  ret |-> RetNone, raised |-> w.raised]
            ELSE LET ret == Counted(w.ret)
                     aggr == Aggregate(aggr_result, ret)
                     r == IF Break(stop_on_fail, ret)
                          THEN [ran |-> <<>>, rets |-> <<>>, logged |-> <<>>,
                                ret |-> aggr, raised |-> NoExc]
                          ELSE RunLoop(tcs, k + 1, aggr, stop_on_fail)
                 IN [r EXCEPT !.ran = <<tcs[k].name>> \o @,
                              !.rets = <<w.ret>> \o @,
                              !.logged = <<w.result>> \o @]

\* What the last call did
RunObs(op) ==
    [op |-> op, raised |-> NoExc, stop_on_fail |-> FALSE, ran |-> <<>>,
     rets |-> <<>>, logged |-> <<>>, ret |-> RetNone]

\* A new Context: no testcase is registered
InitRun ==
    /\ CtxUnused
    /\ tr = NewTransport("pty")
    /\ buf = <<>>
    /\ pc = [at |-> "-", testcases |-> <<>>]
    /\ chans = <<>>
    /\ bscopes = <<>>
    /\ obs = RunObs("init")

\* Context.register_testcase of a decorated function
RegisterTestcase(name, tc) ==
    /\ IF \E i \in 1..Len(pc.testcases) : pc.testcases[i].name = name
       THEN /\ obs' = [RunObs("register_testcase") EXCEPT !.raised = KeyError]
            /\ pc' = pc
       ELSE /\ obs' = RunObs("register_testcase")
            /\ pc' = [pc EXCEPT !.testcases =
                                   Append(@, [name |-> name, tc |-> tc])]
    /\ UNCHANGED <<ctxvars, tr, buf, chans, bscopes>>

\* Context.run_test
RunTest(stop_on_fail) ==
    /\ LET r == RunLoop(pc.testcases, 1, RetInt(0), stop_on_fail)
       IN obs' = [RunObs("run_test") EXCEPT
                    !.stop_on_fail = stop_on_fail, !.raised = r.raised,
                    !.ran = r.ran, !.rets = r.rets, !.logged = r.logged,
                    !.ret = r.ret]
    /\ UNCHANGED <<ctxvars, tr, buf, pc, chans, bscopes>>

NextRun ==
    \/ \E name \in TestNames, tc \in Bodies : RegisterTestcase(name, tc)
    \/ \E stop_on_fail \in BOOLEAN : RunTest(stop_on_fail)

SpecRun == InitRun /\ [][NextRun]_vars

\* ------------------------------------------------------------------ claims
\* The open request scopes on class c, and those among them that were open
\* before the most recent operation (a request that yielded opened the last)
OpenOn(c) == {k \in 1..Len(scopes) : scopes[k].cls = c}

OpenBefore(c) ==
    IF last.op = "request" /\ last.m # NoInst
    THEN OpenOn(c) \ {Len(scopes)}
    ELSE OpenOn(c)

\* (InstanceOf(last.cls)' is the instance, after a step, of the class the
\* step was about)
InstanceOf(c) == IF c \in DOMAIN instances THEN instances[c].instance ELSE NoInst

\* C1: while an exclusive request scope for a role is open, every other
\* request for that role, whatever its reset, exclusive and reset_on_error
\* arguments, raises ContextError and neither initializes, tears down nor
\* yields an instance.
C1_ExclusiveDenial ==
    (/\ last.op = "request"
     /\ \E k \in OpenBefore(last.cls) : scopes[k].exclusive)
    => (/\ last.raised = ContextError
        /\ last.factory = 0
        /\ last.torn = <<>>
        /\ last.m = NoInst)

C3_UnavailableWhileExclusive ==
    \A k \in 1..Len(scopes) :
        scopes[k].exclusive => ~instances[scopes[k].cls].available

\* C4: an InstanceManager's current_users equals the number of request
\* scopes open on that manager, also across teardown and re-initialization
\* of the instance while scopes are open and across requests that fail.
C4_UsersCountScopes ==
    /\ \A c \in DOMAIN instances :
          instances[c].current_users = Cardinality(OpenOn(c))
    /\ \A c \in Classes \ DOMAIN instances : OpenOn(c) = {}

\* C4's case: two scopes are open on a class whose instance was torn down
\* and initialized again after the first of them was opened.
C4_Witness ==
    \E c \in DOMAIN instances :
        /\ instances[c].current_users = 2
        /\ \E k \in OpenOn(c) : scopes[k].m # instances[c].instance
        /\ is_alive(instances[c])

C6_ReuseUnlessReset ==
    [][(/\ last.op = "exit"
        /\ last.exc = NoExc
        /\ last.raised = NoExc
        /\ ~last.exclusive
        /\ last.ka
        /\ keep_alive
        /\ OpenOn(last.cls) = {}
        /\ last.m = InstanceOf(last.cls)
        /\ instances[last.cls].available
        /\ last'.op = "request"
        /\ last'.cls = last.cls)
       => (/\ last.torn = <<>>
           /\ ~last'.reset =>
                 (/\ last'.raised = NoExc
                  /\ last'.m = last.m
                  /\ last'.factory = 0
                  /\ last'.torn = <<>>)
           /\ (last'.reset /\ last'.m # NoInst) =>
                 (/\ last'.torn = <<last.cls>>
                  /\ last'.factory = 1
                  /\ last'.m # last.m))]_vars

\* C6's case: in a keep_alive Context a request with reset=true tore the
\* live instance down and yielded the second instance of its class.
C6_Witness ==
    /\ last.op = "request"
    /\ keep_alive
    /\ last.reset
    /\ last.torn = <<last.cls>>
    /\ last.factory = 1
    /\ last.m = 2
    /\ Len(scopes) = 1

C8_OriginalErrorPropagates ==
    (last.op = "exit" /\ last.exc # NoExc /\ last.roe)
    => last.raised = last.exc

\* C9: the outermost exit of a Context with keep_alive=true tears down every
\* instance that is alive, later first-used classes first; with
\* keep_alive=false it tears none down and warns about each.
C9_ExitTearsDownAll ==
    (last.op = "exit_context" /\ open_contexts = 0)
    => IF last.ka
       THEN /\ last.torn = SelectSeq(Reverse(teardown_order),
                                     LAMBDA c : c \in last.alive)
            /\ Alive = {}
       ELSE /\ last.torn = <<>>
            /\ last.warned = last.alive
            /\ Alive = last.alive

\* C10: a teardown that fails during the outermost exit of the Context is
\* reported as a warning and is not raised out of the exit.
C10_ExitNeverRaises ==
    last.op = "exit_context" => last.raised = NoExc

\* C11: a teardown of an instance that is started while a teardown of the
\* same instance is still running its cleanup code is rejected with an
\* error.
C11_NestedTeardownRejected ==
    last.op = "nested_teardown" => last.raised = ContextError

\* C15: when an InstanceManager.request scope exits, the instance is torn
\* down iff it is still alive and the request was exclusive or it was the
\* last user with keep_alive false; the exit of an exclusive request leaves
\* the instance uninitialized; with keep_alive a shared live instance whose
\* last user leaves stays alive and available.
C15_ExitTeardownRule ==
    [][last'.op = "im_exit" =>
         LET due == /\ is_alive(IM)
                    /\ \/ last'.exclusive
                       \/ ~last'.ka /\ IM.current_users = 1
         IN /\ (last'.torn # <<>>) <=> due
            /\ last'.exclusive => ~is_alive(IM')
            /\ (/\ ~last'.exclusive
                /\ last'.ka
                /\ IM.current_users = 1
                /\ is_alive(IM))
               => (is_alive(IM') /\ IM'.available)]_vars

\* C16: InstanceManager.init on a manager whose instance is alive raises
\* ContextError and changes nothing; InstanceManager.teardown on a manager
\* without an instance raises ContextError and changes nothing; after a
\* teardown that returned (also one interrupted by its cleanup code, or
\* called from it) the manager is not alive, and only an init that returned
\* makes it alive again.
C16_InitTeardownGuards ==
    [][/\ (last'.op = "im_init" /\ is_alive(IM))
          => (last'.raised = ContextError /\ IM' = IM)
       /\ (last'.op = "im_teardown" /\ ~is_alive(IM))
          => (last'.raised = ContextError /\ IM' = IM)
       /\ (/\ last'.op \in {"im_teardown", "teardown_end", "nested_teardown"}
           /\ last'.raised = NoExc)
          => ~is_alive(IM')
       /\ (~is_alive(IM) /\ is_alive(IM'))
          => (last'.op = "im_init" /\ last'.raised = NoExc)]_vars

\* C16's case: an init on a live manager was refused while a scope is open
\* on the instance.
C16_Witness ==
    /\ last.op = "im_init"
    /\ last.raised = ContextError
    /\ last.m # NoInst
    /\ IM.current_users > 0

\* The roles bound by a non-weak registration
BoundStrong == DOMAIN roles \ weak_roles

\* C12: register_machine with weak=false raises the 'already registered'
\* error exactly when a role it comes to is bound by a non-weak
\* registration at that moment (before the call, or by this call for a role
\* that is listed twice); and no register_machine call ever changes or
\* weakens the binding of a role bound by a non-weak registration.
C12_StrongBindingIsFinal ==
    [][last'.op = "register" =>
         /\ ~last'.weak =>
              ((last'.raised = KeyError) <=>
                  \E i \in 1..Len(last'.rs) :
                      \/ last'.rs[i] \in BoundStrong
                      \/ \E j \in 1..(i - 1) : last'.rs[j] = last'.rs[i])
         /\ last'.weak => last'.raised # KeyError
         /\ \A r \in BoundStrong :
               r \in BoundStrong' /\ roles'[r] = roles[r]]_vars

\* C12's case: a non-weak registration for a role bound by a non-weak
\* registration of the other machine class was refused.
C12_Witness ==
    /\ last.op = "register"
    /\ ~last.weak
    /\ last.raised = KeyError
    /\ \E i \in 1..Len(last.rs) :
          /\ last.rs[i] \in BoundStrong
          /\ roles[last.rs[i]] # last.cls

\* C13: register_machine with weak=true never raises and changes neither
\* the binding nor the weakness of a role that is already bound; a
\* non-weak registration of a weakly bound role does not raise and binds
\* the role non-weakly to the new machine class.
C13_WeakNeverRaises ==
    [][last'.op = "register" =>
         /\ last'.weak =>
              /\ last'.raised = NoExc
              /\ \A r \in DOMAIN roles :
                    /\ roles'[r] = roles[r]
                    /\ (r \in weak_roles') <=> (r \in weak_roles)
         /\ (~last'.weak /\ Len(last'.rs) = 1 /\ last'.rs[1] \in weak_roles)
            => /\ last'.raised = NoExc
               /\ roles'[last'.rs[1]] = last'.cls
               /\ last'.rs[1] \in BoundStrong']_vars

\* The classes whose instance is alive and has no users
Idle == {c \in DOMAIN instances :
            is_alive(instances[c]) /\ ~has_users(instances[c])}

\* C14: a reconfigure scope records keep_alive and reset_on_error_default
\* at its entry, its exit (normal or by exception) restores both, and
\* outside of reconfigure scopes they never change; the exit of a scope that
\* switched keep_alive from false to true tears down every instance that is
\* alive and has no users, in reverse teardown_order, and leaves the
\* instances that have users as they are.
C14_ReconfigureRestores ==
    [][/\ Len(reconfs') > Len(reconfs) =>
            /\ reconfs'[Len(reconfs')].keep_alive_orig = keep_alive
            /\ reconfs'[Len(reconfs')].reset_on_error_orig
                  = reset_on_error_default
       /\ (reconfs = <<>> /\ reconfs' = <<>>) =>
            UNCHANGED <<keep_alive, reset_on_error_default>>
       /\ Len(reconfs') < Len(reconfs) =>
            /\ keep_alive' = reconfs[1].keep_alive_orig
            /\ reset_on_error_default' = reconfs[1].reset_on_error_orig
            /\ (~reconfs[1].keep_alive_orig /\ reconfs[1].keep_alive = {TRUE})
               => /\ last'.torn = SelectSeq(Reverse(teardown_order),
                                            LAMBDA c : c \in Idle)
                  /\ \A c \in Idle : ~is_alive(instances'[c])
                  /\ \A c \in DOMAIN instances \ Idle :
                        instances'[c] = instances[c]]_vars

\* C17: a Context.request that gets as far as its machine class, on a class
\* whose instance is not alive, invokes the factory exactly once and either
\* yields the instance it made or raises the factory's error, never a
\* ContextError; on a class whose instance is alive, a request with
\* reset=false does not invoke the factory.
C17_LazyInit ==
    [][(last'.op = "request" /\ last'.cls \in Classes) =>
         /\ InstanceOf(last'.cls) = NoInst =>
              /\ last'.factory = 1
              /\ last'.raised \in {NoExc, FactoryError}
              /\ last'.raised = NoExc =>
                    /\ last'.m # NoInst
                    /\ last'.m = InstanceOf(last.cls)'
         /\ (InstanceOf(last'.cls) # NoInst /\ ~last'.reset) =>
              last'.factory = 0]_vars

\* C17's case: in a keep_alive Context a request without reset found the
\* instance not alive and yielded the second instance of its class.
C17_Witness ==
    /\ last.op = "request"
    /\ keep_alive
    /\ ~last.reset
    /\ last.raised = NoExc
    /\ last.factory = 1
    /\ last.m = 2
    /\ last.torn = <<>>

\* C18 as claimed: a teardown_if_alive that returns has returned true
\* exactly when the instance was alive at the call, the instance is not
\* alive afterwards, and when it was not alive no state has changed.
C18_TeardownIfAlive ==
    [][(last'.op = "teardown_if_alive" /\ last'.raised = NoExc) =>
         /\ last'.ret <=> (InstanceOf(last'.cls) # NoInst)
         /\ InstanceOf(last.cls)' = NoInst
         /\ InstanceOf(last'.cls) = NoInst =>
               UNCHANGED <<roles, weak_roles, closing, instances, keep_alive,
                           reset_on_error_default, open_contexts,
                           teardown_order, inits, scopes, reconfs>>]_vars

\* C18 as amended: a teardown_if_alive that returns has returned true
\* exactly when the instance was alive at the call, the instance is not
\* alive afterwards whatever scopes are open on it, and when it was not
\* alive nothing has changed except that the machine class has an (empty)
\* InstanceManager now if it had none.
C18_TeardownIfAliveCreatesManager ==
    [][(last'.op = "teardown_if_alive" /\ last'.raised = NoExc) =>
         /\ last'.ret <=> (InstanceOf(last'.cls) # NoInst)
         /\ InstanceOf(last.cls)' = NoInst
         /\ InstanceOf(last'.cls) = NoInst =>
               /\ instances' = SetManager(last'.cls, Manager(last'.cls))
               /\ UNCHANGED <<roles, weak_roles, closing, keep_alive,
                              reset_on_error_default, open_contexts,
                              teardown_order, inits, scopes, reconfs>>]_vars

\* C18's case: teardown_if_alive returned true while an exclusive request
\* scope is open on the instance it tore down.
C18_Witness ==
    /\ last.op = "teardown_if_alive"
    /\ last.ret
    /\ last.torn = <<last.cls>>
    /\ \E k \in OpenOn(last.cls) : scopes[k].exclusive
    /\ InstanceOf(last.cls) = NoInst

\* C19: on a keep_alive Context that is not entered, every request raises
\* ContextError, also one for a type that resolves to no machine class, and
\* changes neither instances, scopes nor teardown_order.
C19_NotEnteredDenied ==
    [][(last'.op = "request" /\ keep_alive /\ open_contexts = 0) =>
         /\ last'.raised = ContextError
         /\ last'.factory = 0
         /\ last'.torn = <<>>
         /\ last'.m = NoInst
         /\ UNCHANGED <<instances, teardown_order, inits, scopes>>]_vars

\* C19's case: a request on a keep_alive Context that is not entered was
\* refused while an instance is alive from the time it was entered.
C19_Witness ==
    /\ last.op = "request"
    /\ last.raised = ContextError
    /\ keep_alive
    /\ open_contexts = 0
    /\ Alive # {}

\* C20: for every open exclusive request scope and every way it can exit
\* (normally or by an exception, the cleanup raising or not), the exit with
\* reset_on_error=true and the one with reset_on_error=false call teardown
\* the same number of times (once if the instance is alive), raise the same
\* and leave the manager in the same state.
C20_ResetOnErrorIsNoOp ==
    \A i \in 1..Len(scopes) :
        scopes[i].exclusive =>
            \A exc \in {NoExc} \cup BodyExcs, fails \in BOOLEAN :
                LET m == instances[scopes[i].cls]
                    with == CtxRequestExit(m, [scopes[i] EXCEPT !.roe = TRUE],
                                           exc, fails)
                    without == CtxRequestExit(m, [scopes[i] EXCEPT !.roe = FALSE],
                                              exc, fails)
                IN (fails => m.cx) =>
                      /\ with.m = without.m
                      /\ with.exc = without.exc
                      /\ with.tried = without.tried
                      /\ is_alive(m) => with.tried = 1

\* C28: on every ChannelIO variant over a real transport, a read on a
\* transport whose far end has closed and that holds no pending data raises
\* ChannelClosedException: it neither returns (empty) bytes nor raises
\* TimeoutError.
C28_ClosedReadRaises ==
    (obs.op = "read" /\ obs.eof /\ obs.rx = <<>>) => obs.exc = ChannelClosed

\* C21: wait_for_shell sends the echo line once per attempt and then
\* expects the marker, with timeout 0.2 s on the first attempt and 3.0 s on
\* every later one; an attempt follows only an expect that timed out, any
\* other exception (and one of sendline) leaves the routine, no number of
\* timeouts does; the routine returns as soon as an attempt saw the marker
\* in the bytes buffered before it and read by it, and only then.
C21_Handshake ==
    /\ \A i \in 1..Len(pc.tlog) :
          pc.tlog[i] = IF i = 1 THEN FirstTimeout ELSE RetryTimeout
    /\ pc.sent = Len(pc.tlog)
    /\ pc.at \in {"expect", "done"} => pc.timeouts = pc.sent - 1
    /\ pc.at = "send" => pc.timeouts = pc.sent
    /\ pc.at = "raised" => (pc.src = "sendline" \/ pc.exc # Timeout)
    /\ pc.at = "done" => Find(pc.buf0 \o pc.got, LoginMarker) # 0

\* C21's case: the marker was seen on the second attempt, after two echo
\* lines and the timeouts 0.2 s and 3.0 s
C21_Witness ==
    /\ pc.at = "done"
    /\ pc.sent = 2
    /\ pc.tlog = <<FirstTimeout, RetryTimeout>>
    /\ pc.timeouts = 1

\* C26: an expect (and the read under it) that ends in a TimeoutError drops
\* no bytes: the transport keeps what it held, and the receive buffer holds,
\* in order, what it held when the call began followed by every byte the
\* call has read, so that a later expect can match them.
C26_TimeoutDropsNothing ==
    [][(obs'.op = "expect" /\ obs'.exc = Timeout) =>
          /\ tr'.rx = tr.rx
          /\ tr'.out = tr.out
          /\ buf' = pc.buf0 \o pc.got]_vars

\* C26's case: an expect timed out after it had read a part of the marker,
\* and the retried expect matched the marker with the help of these bytes
C26_Witness ==
    /\ pc.at = "done"
    /\ pc.timeouts > 0
    /\ pc.buf0 # <<>>
    /\ Find(pc.got, LoginMarker) = 0
    /\ Find(pc.buf0 \o pc.got, LoginMarker) # 0

\* The prompts a call has consumed: those the shell printed less those that
\* are still under way or in the receive buffer
PromptsIn(s) == Cardinality({i \in 1..Len(s) : s[i] = Prompt})
Consumed == Len(tr.ran) - PromptsIn(tr.out \o tr.rx \o buf)

\* C22: exec sends the command line, reads the output up to the prompt,
\* sends the probe `echo $?` and reads up to the next prompt, in this
\* order; a call that returns or fails on the probe's answer has sent these
\* two lines and consumed two prompts; an answer that is not an integer
\* raises InvalidRetcodeException, after which nothing more is sent.
C22_ExecProtocol ==
    /\ pc.sent = Take(<<CmdLine, ProbeLine>>, Len(pc.sent))
    /\ pc.at = "read_out" => (pc.sent = <<CmdLine>> /\ Consumed = 0)
    /\ pc.at = "send_probe" =>
          (pc.sent = <<CmdLine>> /\ Consumed = 1 /\ pc.out = tr.cmdout)
    /\ pc.at = "read_rc" => (pc.sent = <<CmdLine, ProbeLine>> /\ Consumed = 1)
    /\ (pc.at \in {"done", "returned"}
        \/ (pc.at = "raised" /\ pc.exc \in {InvalidRetcode, CommandFailure}))
          => /\ pc.sent = <<CmdLine, ProbeLine>>
             /\ Consumed = 2
             /\ pc.out = tr.cmdout
             /\ PyInt(pc.retcode_str).ok <=> pc.exc # InvalidRetcode

\* C22's case: the probe's answer was not an integer and the call raised
\* InvalidRetcodeException, two lines sent and two prompts consumed
C22_Witness ==
    /\ pc.at = "raised" /\ pc.exc = InvalidRetcode
    /\ pc.sent = <<CmdLine, ProbeLine>>
    /\ Consumed = 2
    /\ tr.tx = <<>>

\* C23: for every N in 0..255, when the shell answers the probe with N and
\* a newline, exec returns the retcode N; exec0 returns the command's
\* output exactly when the retcode is 0 and raises CommandFailureException
\* for every other retcode.
C23_RetcodeRoundTrip ==
    /\ (pc.at \in {"done", "returned"} /\ tr.noise = <<>>) =>
          /\ pc.retcode_str = Str(tr.code) \o <<"\n">>
          /\ pc.retcode = tr.code
    /\ pc.at = "returned" => (pc.retcode = 0 /\ pc.ret = tr.cmdout)
    /\ (pc.at = "raised" /\ pc.exc = CommandFailure) =>
          (pc.fn = "exec0" /\ pc.retcode # 0 /\ pc.retcode = tr.code)

\* C23's case: the shell answered 255 and exec0 raised CommandFailure
C23_Witness ==
    /\ pc.at = "raised" /\ pc.exc = CommandFailure
    /\ pc.retcode = 255
    /\ pc.retcode_str = <<"2", "5", "5", "\n">>

\* The rules of the open borrow scopes: an operation on the parent of an
\* open scope raises ChannelBorrowed; the borrower of the innermost scope
\* can operate unless it gave the channel away itself; an object whose
\* scope has closed cannot operate
BorrowRules ==
    /\ \A k \in 1..Len(bscopes) :
          Stub(chans[bscopes[k].parent].c) = ChannelBorrowed
    /\ bscopes # <<>> =>
          (~chans[Innermost.borrower].gave =>
                Stub(chans[Innermost.borrower].c) = NoExc)
    /\ \A i \in 1..Len(chans) : chans[i].revoked => Stub(chans[i].c) # NoExc

\* C24: while a borrow() scope on a channel c is open every operation on c
\* raises ChannelBorrowed and the borrower can operate (the innermost one,
\* as long as it has not given the channel away itself); when the scope
\* closes c is usable again, and the borrower is not usable from then on.
C24_BorrowExclusivity ==
    [][/\ BorrowRules'
       /\ Len(bscopes') < Len(bscopes) =>
             Stub(chans'[Innermost.parent].c) = NoExc]_vars

\* C25: once c.take() has returned, every operation on c raises
\* ChannelTaken whatever happens afterwards, the returned object can
\* operate right after the call, and at every instant at most one Channel
\* object can operate on the ChannelIO.
C25_TakeIrreversible ==
    [][/\ \A i \in 1..Len(chans) :
             (chans[i].kind = "channel" /\ chans[i].gave) =>
                   Stub(chans'[i].c) = ChannelTaken
       /\ (obs'.op = "take" /\ obs'.exc = NoExc) =>
             /\ Stub(chans'[obs'.ch].c) = ChannelTaken
             /\ Stub(chans'[Len(chans')].c) = NoExc
       /\ Cardinality({i \in 1..Len(chans') : Stub(chans'[i].c) = NoExc}) <= 1]_vars

\* The two calls that end a proxy
Terminations == {"terminate", "terminate0"}

C30_RunContextExit ==
    [][/\ (obs'.op = "run_exit" /\ bscopes' # bscopes) =>
             /\ (obs'.how = "normal" /\ obs'.alive) => obs'.exc = RuntimeError
             /\ (obs'.how = "normal" /\ ~obs'.alive) => obs'.exc = NoExc
             /\ obs'.ch = Innermost.parent
             /\ bscopes' = SubSeq(bscopes, 1, Len(bscopes) - 1)
             /\ Stub(chans'[obs'.ch].c) = NoExc
       /\ (obs'.op = "run" /\ obs'.exc = GenError /\ obs' # obs) =>
             (Stub(chans'[obs'.ch].c) = NoExc /\ bscopes' = bscopes)]_vars

\* C30's case: a context was left normally with its proxy alive, which
\* raised RuntimeError, and the parent channel is usable
C30_Witness ==
    /\ obs.op = "run_exit" /\ obs.how = "normal" /\ obs.alive
    /\ obs.exc = RuntimeError
    /\ chans[obs.proxy].alive /\ chans[obs.proxy].revoked
    /\ Stub(chans[obs.ch].c) = NoExc

\* C32: every exit of the Context takes one off open_contexts, also when a
\* teardown raises; an exit that is not the outermost one changes nothing
\* else: it tears nothing down, warns about nothing and raises nothing;
\* is_active() holds exactly while the Context is entered at least once.
C32_ReentrantScope ==
    [][/\ last'.op = "exit_context" =>
             /\ open_contexts' = open_contexts - 1
             /\ open_contexts # 1 =>
                   /\ instances' = instances
                   /\ last'.torn = <<>> /\ last'.warned = {}
                   /\ last'.wrong = {} /\ last'.raised = NoExc
             /\ (last'.torn # <<>> \/ last'.warned # {} \/ last'.wrong # {}
                 \/ last'.raised # NoExc) =>
                   (open_contexts = 1 /\ ~is_active')
             /\ UNCHANGED <<teardown_order, scopes, reconfs, keep_alive, roles>>
       /\ last'.op = "enter" => (open_contexts' = open_contexts + 1 /\ is_active')
       /\ open_contexts' = open_contexts =>
             (is_active' <=> is_active)
       /\ is_active' <=> open_contexts' > 0]_vars

\* C32's case: the outermost exit of a keep_alive Context found an
\* instance alive, its teardown raised, and the count is 0 all the same
C32_Witness ==
    /\ last.op = "exit_context" /\ last.raised = CleanupError
    /\ last.ka /\ last.alive # {}
    /\ open_contexts = 0 /\ ~is_active

\* True when no element occurs twice in s
NoDuplicates(s) == \A i, j \in 1..Len(s) : s[i] = s[j] => i = j

\* C34: no Context operation calls teardown on an instance that is not
\* alive: the only ContextError an operation raises is that of a request
\* (Context not entered, or instance not available), never 'trying to
\* de-init a closed instance'; the classes an operation tears down were
\* alive before it, each is torn down once, and a live instance goes away
\* only by such a teardown and is followed only by a freshly made one.
C34_NoTeardownOfClosed ==
    [][/\ last'.raised = ContextError =>
             /\ last'.op = "request"
             /\ last'.cls # "-" =>
                   /\ is_alive(instances'[last'.cls])
                   /\ ~instances'[last'.cls].available
       /\ NoDuplicates(last'.torn)
       /\ \A k \in 1..Len(last'.torn) : is_alive(Manager(last'.torn[k]))
       /\ \A c \in DOMAIN instances :
             (is_alive(instances[c])
              /\ instances'[c].instance # instances[c].instance) =>
                   /\ InSeq(c, last'.torn)
                   /\ is_alive(instances'[c]) =>
                         (instances'[c].instance = inits'[c]
                          /\ inits'[c] = inits[c] + 1)]_vars

\* C34's case: a scope that resets on error and is exclusive was left with
\* an error: the forced teardown ran, the exit rule applied as well, and
\* the instance was torn down once
C34_Witness ==
    /\ last.op = "exit" /\ last.exc = BodyError /\ last.raised = BodyError
    /\ last.roe /\ last.exclusive
    /\ last.torn = <<last.cls>>
    /\ ~is_alive(instances[last.cls])

\* The place of x in s
Pos(x, s) == CHOOSE k \in 1..Len(s) : s[k] = x

C36_KeepAliveAtEntry ==
    [][/\ (last'.op = "request" /\ Len(scopes') = Len(scopes) + 1) =>
             scopes'[Len(scopes')].ka = keep_alive
       /\ (last'.op = "exit" /\ Len(scopes') = Len(scopes) - 1) =>
             /\ \E i \in 1..Len(scopes) :
                   /\ scopes' = Remove(scopes, i)
                   /\ scopes[i].cls = last'.cls
                   /\ scopes[i].ka = last'.ka
             /\ (last'.ka /\ ~last'.exclusive /\ last'.exc = NoExc) =>
                   (instances'[last'.cls].instance
                       = instances[last'.cls].instance
                    /\ last'.torn = <<>>)
             /\ (~last'.ka /\ ~last'.exclusive /\ last'.exc = NoExc
                 /\ is_alive(instances[last'.cls])
                 /\ ~has_users(instances'[last'.cls])
                 /\ last'.raised = NoExc) =>
                   (~is_alive(instances'[last'.cls])
                    /\ last'.torn = <<last'.cls>>)]_vars

\* C36's case: a shared scope entered inside reconfigure(keep_alive=True)
\* of a Context without keep_alive was left, as the last user, after that
\* reconfigure scope had ended: the instance is alive with no user
C36_Witness ==
    /\ last.op = "exit" /\ last.ka /\ ~last.exclusive /\ last.exc = NoExc
    /\ reconfs = <<>> /\ ~keep_alive
    /\ is_alive(instances[last.cls])
    /\ ~has_users(instances[last.cls])

\* A type that is neither a registered role nor a machine class that has
\* an InstanceManager
Unknown(type) == type \notin DOMAIN roles /\ type \notin DOMAIN instances

\* What Context.request and teardown_if_alive must leave alone when they
\* raise for an unknown type
NothingChanged ==
    UNCHANGED <<roles, weak_roles, instances, teardown_order, inits, scopes,
                reconfs, open_contexts, keep_alive, reset_on_error_default>>

\* C37: Context.request and teardown_if_alive for an unknown type raise
\* MachineNotFoundError and change neither roles, instances, teardown_order
\* nor any counter.
C37_UnknownTypeRaises ==
    [][\A type \in Types : Unknown(type) =>
          /\ (\E reset \in BOOLEAN, exclusive \in BOOLEAN,
                 reset_on_error \in OptBool, cf \in BOOLEAN, ff \in BOOLEAN :
                 Request(type, reset, exclusive, reset_on_error, cf, ff)) =>
                (last'.raised = MachineNotFoundError /\ NothingChanged)
          /\ (\E cf \in BOOLEAN : TeardownIfAlive(type, cf)) =>
                (last'.raised = MachineNotFoundError /\ NothingChanged)]_vars

\* C37 as amended: for an unknown type teardown_if_alive raises
\* MachineNotFoundError, and so does Context.request unless the Context has
\* keep_alive and is not entered, in which case it raises ContextError;
\* either way roles, instances, teardown_order and the counters stay as
\* they are.
C37_UnknownTypeRaisesWhenEntered ==
    [][\A type \in Types : Unknown(type) =>
          /\ (\E reset \in BOOLEAN, exclusive \in BOOLEAN,
                 reset_on_error \in OptBool, cf \in BOOLEAN, ff \in BOOLEAN :
                 Request(type, reset, exclusive, reset_on_error, cf, ff)) =>
                /\ last'.raised = IF keep_alive /\ open_contexts = 0
                                  THEN ContextError
                                  ELSE MachineNotFoundError
                /\ NothingChanged
          /\ (\E cf \in BOOLEAN : TeardownIfAlive(type, cf)) =>
                (last'.raised = MachineNotFoundError /\ NothingChanged)]_vars

\* C37's case: a request for a machine class that has no InstanceManager,
\* made in a keep_alive Context that is entered, raised
\* MachineNotFoundError and the class still has no InstanceManager
C37_Witness ==
    /\ last.op = "request" /\ last.raised = MachineNotFoundError
    /\ keep_alive /\ open_contexts > 0
    /\ Unknown("A")

\* C38: in a Context made with keep_alive=False whose scopes are properly
\* nested and whose teardowns do not fail, no instance is alive whenever
\* no request scope and no reconfigure scope is open.
C38_NothingLeaks ==
    (scopes = <<>> /\ reconfs = <<>>) =>
        \A c \in DOMAIN instances : ~is_alive(instances[c])

\* C38's case: the outermost reconfigure scope was left and tore down an
\* instance that a request scope inside it had left alive; no scope is open
\* and the machine class was initialized
C38_Witness ==
    /\ last.op = "exit_reconfigure" /\ last.torn = <<"A">>
    /\ scopes = <<>> /\ reconfs = <<>>
    /\ inits["A"] > 0 /\ ~keep_alive

\* The names of the registered testcases, in registration order
Registered_Names == [i \in 1..Len(pc.testcases) |-> pc.testcases[i].name]

\* The largest element of a non-empty set of integers
Largest(S) == CHOOSE x \in S : \A y \in S : y <= x

\* What a value returned by a testcase counts as: its integer value, or 0
\* when it is no integer
CountsAs(ret) == IF IsInt(ret) THEN ret.v ELSE 0

\* run_test ran the registered testcases in registration order, and with
\* stop_on_fail none after the first that returned a positive integer;
\* without stop_on_fail it ran them all
RanInOrder ==
    /\ Len(obs.ran) <= Len(pc.testcases)
    /\ obs.ran = SubSeq(Registered_Names, 1, Len(obs.ran))
    /\ Len(obs.rets) = Len(obs.ran)
    /\ obs.stop_on_fail =>
          \A i \in 1..(Len(obs.ran) - 1) : CountsAs(obs.rets[i]) <= 0
    /\ Len(obs.ran) < Len(pc.testcases) =>
          /\ obs.stop_on_fail
          /\ CountsAs(obs.rets[Len(obs.ran)]) > 0

\* C33: run_test executes the registered testcases in registration order,
\* with stop_on_fail none after the first one that returns a positive
\* integer, and its result is the maximum integer return value over the
\* executed testcases, a return value that is no integer counted as 0.
C33_RunTestMaximum ==
    (obs.op = "run_test" /\ obs.raised = NoExc /\ obs.ran # <<>>) =>
        /\ RanInOrder
        /\ obs.ret.v = Largest({CountsAs(obs.rets[i]) : i \in 1..Len(obs.rets)})

\* C33 as amended: the order and the stop are as claimed, and the result
\* is the largest of 0 and the integer return values of the executed
\* testcases; it is 0 when no testcase ran or all of them returned
\* negative integers or values that are no integers.
C33_RunTestMaximumOrZero ==
    (obs.op = "run_test" /\ obs.raised = NoExc) =>
        /\ RanInOrder
        /\ obs.ret.v = Largest({0} \cup
                          {CountsAs(obs.rets[i]) : i \in 1..Len(obs.rets)})

\* C33's case: with stop_on_fail a run of three registered testcases ended
\* after the second, which returned the positive integer that is the result
C33_Witness ==
    /\ obs.op = "run_test" /\ obs.raised = NoExc /\ obs.stop_on_fail
    /\ Len(pc.testcases) = 3 /\ Len(obs.ran) = 2
    /\ obs.rets[1] = RetInt(-1) /\ obs.rets[2] = RetInt(2)
    /\ obs.ret = RetInt(2)

\* C39: an Exception raised inside a function decorated with @testcase
\* never propagates to run_test: the testcase is logged as failed, returns
\* None, which counts as 0, the run goes on with the next testcase even
\* with stop_on_fail, and the result is what the other executed testcases
\* make it.
C39_ExceptionCountsAsZero ==
    obs.op = "run_test" =>
        /\ obs.raised # BodyError
        /\ \A i \in 1..Len(obs.ran) :
              pc.testcases[i].tc.raises = BodyError =>
                 /\ i <= Len(obs.rets)
                 /\ obs.rets[i] = RetNone /\ obs.logged[i] = FALSE
                 /\ i < Len(pc.testcases) => i < Len(obs.ran)
                 /\ obs.raised = NoExc =>
                       obs.ret.v = Largest({0} \cup
                          {CountsAs(obs.rets[j]) :
                              j \in (1..Len(obs.rets)) \ {i}})

\* C39's case: with stop_on_fail the first testcase raised an Exception,
\* the second ran after it and run_test returned the second's value
C39_Witness ==
    /\ obs.op = "run_test" /\ obs.raised = NoExc /\ obs.stop_on_fail
    /\ Len(obs.ran) >= 2
    /\ pc.testcases[1].tc.raises = BodyError
    /\ obs.rets[2] = RetInt(1) /\ obs.ret = RetInt(1)

\* The 'exit' lines interactive has sent: those the shells have run and
\* those they have not read yet
ExitsSent == Len(SelectSeq(tr.ran \o tr.tx, LAMBDA l : l = ExitLine))

\* The prompts of the machine's shell that are still on their way to the
\* caller: written, arrived or in the receive buffer
PromptsAhead == Len(SelectSeq(tr.out \o tr.rx \o buf, LAMBDA b : b = Prompt))

\* C31: after the relay interactive sends 'exit' and waits for the prompt;
\* it sends 'exit' a second time only after the first wait timed out, a
\* second timeout makes the call fail, 'exit' is never sent more than
\* twice, and the call returns only after a prompt was read.
C31_ExitTwiceAtMost ==
    /\ ExitsSent <= 2
    /\ ExitsSent = 2 => pc.timeouts >= 1
    /\ pc.timeouts <= 2
    /\ pc.timeouts = 2 => (pc.at = "raised" /\ pc.exc = Failed)
    /\ pc.timeouts = 1 /\ pc.at \notin {"raised", "returned"} =>
          (pc.at = "exit2" /\ ExitsSent = 1) \/ (pc.at = "wait2" /\ ExitsSent = 2)
    /\ pc.at = "returned" =>
          (pc.exc = NoExc /\ tr.prompts >= 1 /\ PromptsAhead < tr.prompts)

\* C31's case: the first wait timed out in the outer shell's prompt, the
\* second 'exit' brought the machine's prompt and the call returned
C31_Witness ==
    /\ pc.at = "returned" /\ pc.timeouts = 1
    /\ ExitsSent = 2 /\ tr.nested = 0 /\ tr.ran = <<ExitLine, ExitLine>>

\* C40: ShellChannelIO.read with a finite timeout always ends, with at
\* least one byte of data, with TimeoutError or with
\* ChannelClosedException; bytes that arrived before the process exited are
\* returned before a read raises ChannelClosedException; TimeoutError is
\* raised only when no byte was readable.
C40_ShellReadOutcomes ==
    /\ tr.kind = "pty" =>
          \A n \in 1..MaxRead, timeout \in {TZero, TPos}, dies \in BOOLEAN :
             ~ShellRead(tr, n, timeout, dies).blocks
    /\ (obs.op = "read" /\ tr.kind = "pty" /\ obs.timeout # TNone) =>
          /\ \/ obs.exc = NoExc /\ obs.ret # <<>>
             \/ obs.exc = Timeout /\ obs.ret = <<>>
             \/ obs.exc = ChannelClosed /\ obs.ret = <<>>
          /\ (obs.exc = ChannelClosed /\ obs.open) => obs.rx = <<>>
          /\ obs.exc = Timeout => obs.rx = <<>>
====
